---- MODULE Spec2Model ----
(***************************************************************************)
(* The cross-process resource pool of src/tools/concurrency/concurrency.py *)
(* (GlobalConcurrencyManager) as a state machine.                          *)
(*                                                                         *)
(* Several dispatcher processes, each with its own manager built from the  *)
(* same configuration, share one lock directory.  The state is the part of *)
(* the file system the manager reads and writes (pool directories, lock    *)
(* files, the pool-wide flock, the debug log), the clock, the set of live  *)
(* processes, and every process's position inside the manager's code.      *)
(*                                                                         *)
(* Time is counted in ticks of one polling interval (time.sleep(0.5)).     *)
(***************************************************************************)
EXTENDS Integers, FiniteSets, Sequences, TLC

\* ------------------------------------------------------------------ bounds

\* The clock runs from Epoch to Epoch + MaxTime.
MaxTime == 2
\* settings.stale_lock_timeout, in ticks.
StaleTimeout == 1
\* The largest timeout a caller passes to acquire_resource, in ticks.
MaxWait == 2

\* The dispatcher processes.
Procs == {"p1", "p2"}

\* The clock's first value: later than StaleTimeout, as time.time() is, so
\* that a record without a timestamp (read as 0) is older than the timeout.
Epoch == StaleTimeout + 1
Horizon == Epoch + MaxTime

\* ----------------------------------------------------------- configuration

\* _get_default_config: the pools and their "max".
ResourcePools == [agents |-> 3, linting |-> 2, testing |-> 1]

\* The pool names callers pass: the configured pool the workload targets
\* and "documentation", which the default configuration does not hold.
UnknownPool == "documentation"
Targets == {"linting", "testing"}
PoolNames == DOMAIN ResourcePools \cup {UnknownPool}
Timeouts == 0..MaxWait

NoProc == "nobody"
NoLock == 0 - 1
\* The pid of a process of another user (pid 1, say): os.kill(pid, 0)
\* fails with PermissionError.
OtherUser == "other"
\* uuid4().hex[:8], taken as fresh: an id no file and no holder uses.
LockIds == 1..(Cardinality(Procs) + 3)

VARIABLES
    now,        \* time.time()
    debug,      \* settings.debug
    debugLog,   \* <lock_dir>/debug.log exists
    target,     \* the configured pool the workload uses
    dirs,       \* the pools whose directory <lock_dir>/<pool> exists; a
                \* directory that is not there cannot be made either
                \* (a directory mkdir can make is taken as present)
    globals,    \* the pools whose <lock_dir>/.<pool>_global.lock exists
    files,      \* files[pool]: the *.json files of <lock_dir>/<pool>
    writable,   \* entries of the pool directories can be created, removed
    flock,      \* flock[pool]: the process holding LOCK_EX on its global lock
    alive,      \* the live processes
    pc,         \* each process's position
    op,         \* each process's current (or last) operation
    lock,       \* lock_file of acquire_resource: the id of the file created
    start,      \* start_time of _acquire_with_retry
    wake,       \* the end of the current time.sleep(0.5)
    attempts,   \* calls of _try_acquire_lock_atomically in this acquire
    ret,        \* the value the operation yielded or returned
    exc,        \* the exception the operation raised to its caller
    report,     \* the dictionary get_status returned
    \* one dispatch of hooks/post_tool_linter/hook.py
    hpc,        \* the position of the hook's entry point
    event,      \* what the hook read from standard input
    cfg,        \* the hook's config.json
    out,        \* the JSON objects written to standard output, in order
    permit,     \* the hook is inside the acquire scope that yielded True
    iteration,  \* `iteration` of _run_autofix_iterations
    agentCalls, \* subprocess.run calls of _execute_autofix_agent
    decision,   \* what process_event returned
    exit,       \* the exit code of main, or the exception that left it
    \* one event given to hooks/tdd_guard/hook.py (TDDGuardHook)
    gpc,        \* the position inside process_event
    gevent,     \* the event
    gcfg,       \* the hook's configuration and whether it has a manager
    validator,  \* how the validator subprocess ended
    response,   \* the validator's standard output
    verdict,    \* what process_event returned
    \* one instance of hooks/context7_docs/hook.py (Context7DocsHook)
    dpc,          \* the position inside the hook
    dclock,       \* time.time()
    dcfg,         \* the hook's configuration and whether it has a manager
    devent,       \* the event being processed
    doc_cache,    \* self.doc_cache
    queue,        \* the libraries of the event not yet looked up
    dpermit,      \* the hook is inside an acquire scope that yielded True
    enhancements, \* context_enhancements
    calls,        \* the transport calls made for the event, in order
    lookup,       \* how the last cache lookup ended
    failures,     \* the failures met while processing the event
    dverdict,     \* what process_event returned
    \* one stdio call of Context7DocsHook._call_mcp_server
    mpc,        \* the position inside the call
    child,      \* the spawned process: none, running, exited, reaped
    written,    \* the records written to the child's stdin, in order
    reads,      \* what each process.stdout.readline() returned
    lines,      \* the lines the child wrote that are not read yet
    elapsed,    \* the time since the call began
    waitStart,  \* when process.wait(timeout=...) began
    result,     \* what the call returned, and by which path
    \* one call of calculate_timeout
    tmo,        \* the base timeout, the lines of the report, the result
    \* one call of PostToolLinterHook.process_event up to the end of run_linters
    lint,       \* the hook, the event, the linters started, the time, the result
    \* ExternalToolLoader._check_tool_availability
    probe,      \* what each candidate does when tried, and tools_status
    \* one call of HookManager.create_hook
    loader,     \* the identifier, what the module holds, the result
    \* get_external_loader called by several threads
    single      \* the global, the lock, each thread's position and result

managerVars == <<now, debug, debugLog, target, dirs, globals, files, writable,
                 flock, alive, pc, op, lock, start, wake, attempts, ret, exc,
                 report>>

hookVars == <<hpc, event, cfg, out, permit, iteration, agentCalls, decision,
              exit>>

gateVars == <<gpc, gevent, gcfg, validator, response, verdict>>

\* The hooks other than the linter hook.
docsVars == <<dpc, dclock, dcfg, devent, doc_cache, queue, dpermit,
              enhancements, calls, lookup, failures, dverdict>>

stdioVars == <<mpc, child, written, reads, lines, elapsed, waitStart, result>>

utilityVars == <<tmo, lint, probe, loader, single>>

pluginVars == <<gateVars, docsVars, stdioVars, utilityVars>>

vars == <<managerVars, hookVars, pluginVars>>

\* ------------------------------------------------------------- lock files

\* A lock file.  kind is what a reader finds in it:
\*   "empty"     created by open(.., "w"), the record not yet flushed
\*   "record"    {pool, timestamp, pid, id, metadata}
\*   "nonobject" JSON that is not an object
\*   "badts"     an object whose timestamp is not a number
\*   "nopid"     an object with a timestamp and no pid
LockFile(id, kind, ts, pid) == [id |-> id, kind |-> kind, ts |-> ts, pid |-> pid]

\* Files another program (or a test) left in the pool directory.
ForeignFiles ==
    { LockFile(0, "record", Epoch, OtherUser),
      LockFile(0, "record", 0, OtherUser),
      LockFile(0, "nonobject", 0, "none"),
      LockFile(0, "badts", 0, OtherUser),
      LockFile(0, "nopid", Epoch, "none") }

\* _read_lock_data: the dictionary, or None.
ReadLockData(f) == IF f.kind \in {"empty", "nonobject"} THEN "None" ELSE "dict"

\* _is_process_dead: os.kill(pid, 0).
IsProcessDead(pid, live) ==
    IF pid \in live THEN "False"
    ELSE IF pid = OtherUser THEN "PermissionError"
    ELSE "True"

\* _check_lock_staleness.
CheckLockStaleness(f, t, live) ==
    IF f.kind = "badts" THEN "TypeError"
    ELSE IF t - f.ts > StaleTimeout THEN "True"
    ELSE IF f.kind = "nopid" THEN "False"
    ELSE IsProcessDead(f.pid, live)

\* _is_lock_stale: "True", "False", or the exception that escapes.
IsLockStale(f, t, live) ==
    IF ReadLockData(f) = "None" THEN "True" ELSE CheckLockStaleness(f, t, live)

Raises(f, t, live) == IsLockStale(f, t, live) \in {"PermissionError", "TypeError"}

\* _remove_stale_lock on each stale file among those the sweep looked at:
\* unlink fails (and is only logged) when the directory does not allow it.
RemoveStaleLocks(F, seen, t, live, w) ==
    IF w THEN F \ {f \in seen : IsLockStale(f, t, live) = "True"} ELSE F

\* _cleanup_stale_locks over the files F of a pool directory: the possible
\* results [files, exc, logged].  glob yields the files in any order; the
\* first file whose check raises ends the sweep, after the files before it
\* were dealt with.  logged: _remove_stale_lock wrote to the debug log.
CleanupStaleLocks(F, t, live, w) ==
    LET bad == {f \in F : Raises(f, t, live)}
        res(seen, e) ==
            [files |-> RemoveStaleLocks(F, seen, t, live, w),
             exc |-> e,
             logged |-> \E f \in seen : IsLockStale(f, t, live) = "True"]
    IN  IF bad = {}
        THEN {res(F, "none")}
        ELSE {res(seen, IsLockStale(r, t, live)) :
                  r \in bad, seen \in SUBSET (F \ bad)}

\* self.lock_dir.mkdir(parents=True, exist_ok=True) succeeds: the lock
\* directory is there when one of its pool directories is.
LockDirMade == dirs # {}

\* pool_dir.mkdir(parents=True, exist_ok=True) succeeds.
PoolDirMade(pool) == pool \in dirs

\* _debug_log: with settings.debug, debug.log exists once a line was logged;
\* an OSError of its mkdir or open is ignored.
DebugLog(logged) == debugLog' = (debugLog \/ (debug /\ logged /\ LockDirMade))

FreshId ==
    CHOOSE i \in LockIds :
        /\ \A q \in PoolNames : \A f \in files[q] : f.id # i
        /\ \A p \in Procs : lock[p] # i

\* Two files left behind together: a record of a running process of another
\* user next to a record older than stale_timeout.
LeftBehind ==
    {LockFile(0, "record", Epoch, OtherUser), LockFile(0, "record", 0, OtherUser)}

NoReport == [pools |-> <<>>, total |-> <<>>]

NoDecision == [continue |-> TRUE, msg |-> "none"]

NoCfg == [auto_fix |-> TRUE, has_max |-> FALSE, max |-> 0, debug |-> FALSE]

\* No event has been dispatched to the linter hook.
HookIdle ==
    /\ hpc = "idle" /\ event = "none" /\ cfg = NoCfg /\ out = <<>>
    /\ permit = FALSE /\ iteration = 0 /\ agentCalls = 0
    /\ decision = NoDecision /\ exit = "none"

\* No event has been given to the validation gate.
NoGateCfg == [enabled |-> TRUE, strict_mode |-> FALSE, managed |-> FALSE]

NoEvent == [event_type |-> "none", tool_name |-> "none"]

GateIdle ==
    /\ gpc = "idle" /\ gevent = NoEvent /\ gcfg = NoGateCfg
    /\ validator = "none" /\ response = "none" /\ verdict = NoDecision

\* The documentation hook is not constructed yet.
Libraries == {"react", "django"}
Topics == {"hooks", "none"}
DocKeys == Libraries \X Topics
NoEntry == [content |-> <<>>, timestamp |-> 0 - 1]
NoDocsCfg ==
    [enabled |-> TRUE, proactive |-> TRUE, available |-> TRUE,
     managed |-> FALSE]
NoDocsEvent ==
    [event_type |-> "none", tool_name |-> "none", topic |-> "none",
     libs |-> <<>>]

DocsIdle ==
    /\ dpc = "new" /\ dclock = 0 /\ dcfg = NoDocsCfg /\ devent = NoDocsEvent
    /\ doc_cache = [k \in DocKeys |-> NoEntry]
    /\ queue = <<>> /\ dpermit = FALSE /\ enhancements = <<>>
    /\ calls = <<>> /\ lookup = "none" /\ failures = {}
    /\ dverdict = NoDecision

\* calculate_timeout has not been called.
NoTimeout == [pc |-> "idle", base |-> 0, issue_lines |-> 0, timeout |-> 0]

\* No path, and the linter hook before an event is given to it.
NoPath == [set |-> FALSE, py |-> FALSE, marker |-> FALSE, inside |-> FALSE]

NoLint ==
    [pc |-> "idle", enabled |-> TRUE,
     event |-> [event_type |-> "none", tool_name |-> "none", path |-> NoPath],
     claude |-> "path", which |-> FALSE, started |-> 0, elapsed |-> 0,
     verdict |-> [continue |-> TRUE, msg |-> "none"]]

\* The probe has not run: tools_status is empty.
NoProbe ==
    [pc |-> "idle",
     tdd |-> [src |-> "absent", input |-> "absent", submodule |-> "absent",
              global |-> "absent"],
     c7 |-> [help |-> "absent", submodule |-> "absent", version |-> "absent"],
     tools_status |-> [tdd_guard |-> "none", context7 |-> "none"]]

\* create_hook has not been called.
NoModule ==
    [factory |-> "none", factory_retry |-> "valid", class |-> "none",
     class_retry |-> "valid"]

NoLoader ==
    [pc |-> "idle", identifier |-> "none", load |-> "none",
     module |-> NoModule, result |-> "none", by |-> "none"]

\* The threads that call get_external_loader.
Threads == {"t1", "t2", "t3"}

\* _external_loader is None, _loader_lock is free, no thread has called.
NoSingleton ==
    [external_loader |-> 0, loader_lock |-> "free", probes |-> 0,
     pc |-> [t \in Threads |-> "idle"],
     got |-> [t \in Threads |-> 0],
     failed |-> [t \in Threads |-> FALSE]]

UtilityIdle ==
    /\ tmo = NoTimeout /\ lint = NoLint /\ probe = NoProbe
    /\ loader = NoLoader /\ single = NoSingleton

\* No stdio call has begun.
NoResult == [value |-> "none", path |-> "none"]

StdioIdle ==
    /\ mpc = "idle" /\ child = "none" /\ written = <<>> /\ reads = <<>>
    /\ lines = 0 /\ elapsed = 0 /\ waitStart = 0 /\ result = NoResult

NoOp == [kind |-> "none", pool |-> "none", timeout |-> 0]

TypeOK ==
    /\ now \in Epoch..Horizon
    /\ debug \in BOOLEAN /\ debugLog \in BOOLEAN /\ writable \in BOOLEAN
    /\ target \in Targets
    /\ dirs \subseteq PoolNames
    /\ globals \subseteq PoolNames
    /\ flock \in [PoolNames -> Procs \cup {NoProc}]
    /\ alive \subseteq Procs
    /\ \A p \in Procs :
        /\ pc[p] \in {"idle", "flock", "sweep", "create", "write", "sleep",
                      "scope", "crashed"}
        /\ lock[p] \in LockIds \cup {NoLock}
        /\ ret[p] \in {"none", "True", "False"}
        /\ exc[p] \in {"none", "TypeError", "PermissionError", "OSError",
                       "BodyError"}

Init ==
    /\ now = Epoch
    /\ debug \in BOOLEAN
    /\ debugLog = FALSE
    /\ target \in Targets
    /\ \/ /\ dirs = DOMAIN ResourcePools
          /\ globals = DOMAIN ResourcePools
          /\ \E F \in {{}} \cup {{f} : f \in ForeignFiles} \cup {LeftBehind} :
                 files = [q \in PoolNames |-> IF q = target THEN F ELSE {}]
          /\ writable = TRUE
       \/ /\ \/ dirs = {} /\ globals = {}
             \/ dirs = DOMAIN ResourcePools \ {target}
                    /\ globals = DOMAIN ResourcePools
          /\ files = [q \in PoolNames |-> {}]
          /\ writable = FALSE
    /\ flock = [q \in PoolNames |-> NoProc]
    /\ alive = Procs
    /\ pc = [p \in Procs |-> "idle"]
    /\ op = [p \in Procs |-> NoOp]
    /\ lock = [p \in Procs |-> NoLock]
    /\ start = [p \in Procs |-> 0]
    /\ wake = [p \in Procs |-> 0]
    /\ attempts = [p \in Procs |-> 0]
    /\ ret = [p \in Procs |-> "none"]
    /\ exc = [p \in Procs |-> "none"]
    /\ report = [p \in Procs |-> NoReport]
    /\ HookIdle
    /\ GateIdle
    /\ DocsIdle
    /\ StdioIdle
    /\ UtilityIdle

\* ------------------------------------------------------------- operations

\* Mutant: every pool name is taken as configured.
PoolAlwaysExists(pool) == TRUE

\* `pool_name in self._resource_pools`
PoolExists(pool) == pool \in DOMAIN ResourcePools

\* pool_config.get("max", 1)
MaxResources(pool) ==
    IF pool \in DOMAIN ResourcePools THEN ResourcePools[pool] ELSE 1

\* Mutant: the acquirer does not wait for the pool-wide lock.
FlockNotAwaited(pool) == TRUE

\* fcntl.flock(f.fileno(), fcntl.LOCK_EX) returns once nobody holds the lock.
FlockGranted(pool) == flock[pool] = NoProc

Min(a, b) == IF a < b THEN a ELSE b

\* The per-call variables of a process that is not inside acquire_resource.
Rest(p) ==
    /\ lock' = [lock EXCEPT ![p] = NoLock]
    /\ start' = [start EXCEPT ![p] = 0]
    /\ wake' = [wake EXCEPT ![p] = 0]
    /\ attempts' = [attempts EXCEPT ![p] = 0]

\* Mutant: an attempt that returns None keeps the pool-wide lock.
AttemptKeepsFlock(p) ==
    /\ UNCHANGED flock
    /\ IF op[p].timeout = 0
       THEN /\ pc' = [pc EXCEPT ![p] = "scope"]
            /\ ret' = [ret EXCEPT ![p] = "False"]
            /\ UNCHANGED wake
       ELSE /\ pc' = [pc EXCEPT ![p] = "sleep"]
            /\ wake' = [wake EXCEPT ![p] = Min(now + 1, Horizon)]
            /\ UNCHANGED ret

\* One attempt returned None.  With timeout 0 that is the result of
\* _attempt_resource_acquisition and the scope is entered with False;
\* otherwise _acquire_with_retry sleeps half a second (one tick; the clock
\* stops at Horizon) before it looks at the clock again.
\* Leaving _acquire_with_global_lock closes the global lock file, which
\* releases the flock.
AttemptFailed(p) ==
    /\ flock' = [flock EXCEPT ![op[p].pool] = NoProc]
    /\ IF op[p].timeout = 0
       THEN /\ pc' = [pc EXCEPT ![p] = "scope"]
            /\ ret' = [ret EXCEPT ![p] = "False"]
            /\ UNCHANGED wake
       ELSE /\ pc' = [pc EXCEPT ![p] = "sleep"]
            /\ wake' = [wake EXCEPT ![p] = Min(now + 1, Horizon)]
            /\ UNCHANGED ret

\* acquire_resource up to the first _try_acquire_lock_atomically.  An
\* unknown pool is logged and the scope entered with False.  With a timeout
\* T > 0, _acquire_with_retry reads start_time and enters its loop, since
\* time.time() - start_time < T holds right after start_time was read.
AcquireResource(p, pool, T) ==
    /\ p \in alive /\ pc[p] = "idle"
    /\ now + T <= Horizon
    /\ op' = [op EXCEPT ![p] = [kind |-> "acquire", pool |-> pool, timeout |-> T]]
    /\ exc' = [exc EXCEPT ![p] = "none"]
    /\ IF ~PoolExists(pool)
       THEN /\ DebugLog(TRUE)
            /\ pc' = [pc EXCEPT ![p] = "scope"]
            /\ ret' = [ret EXCEPT ![p] = "False"]
            /\ UNCHANGED start
       ELSE /\ pc' = [pc EXCEPT ![p] = "flock"]
            /\ ret' = [ret EXCEPT ![p] = "none"]
            /\ start' = [start EXCEPT ![p] = IF T = 0 THEN 0 ELSE now]
            /\ UNCHANGED debugLog
    /\ UNCHANGED <<now, debug, target, dirs, globals, files, writable, flock,
                   alive, lock, wake, attempts>>
    /\ report' = [report EXCEPT ![p] = NoReport]
    /\ UNCHANGED <<hookVars, pluginVars>>

\* Mutant: the loop goes on when the timeout has just elapsed.
RetryOffByOne(p) == now - start[p] <= op[p].timeout

\* _acquire_with_retry: `while time.time() - start_time < timeout`.
RetryCondition(p) == now - start[p] < op[p].timeout

\* _acquire_with_retry: time.sleep(0.5) is over and the loop condition is
\* evaluated; when it fails the timeout is logged, None returned and the
\* scope entered with False.
AcquireWithRetry(p) ==
    /\ p \in alive /\ pc[p] = "sleep"
    /\ now >= wake[p]
    /\ wake' = [wake EXCEPT ![p] = 0]
    /\ IF RetryCondition(p)
       THEN /\ pc' = [pc EXCEPT ![p] = "flock"]
            /\ UNCHANGED <<ret, debugLog>>
       ELSE /\ DebugLog(TRUE)
            /\ pc' = [pc EXCEPT ![p] = "scope"]
            /\ ret' = [ret EXCEPT ![p] = "False"]
    /\ UNCHANGED <<now, debug, target, dirs, globals, files, writable, flock,
                   alive, op, lock, start, attempts, exc>>
    /\ UNCHANGED report
    /\ UNCHANGED <<hookVars, pluginVars>>

\* _try_acquire_lock_atomically and _acquire_with_global_lock up to the
\* critical section: open(global_lock_file, "w") and the blocking flock.
\* When _ensure_lock_directory fails the attempt returns None at once.
AcquireWithGlobalLock(p) ==
    /\ p \in alive /\ pc[p] = "flock"
    /\ attempts' = [attempts EXCEPT ![p] = attempts[p] + 1]
    /\ IF LockDirMade
       THEN /\ FlockGranted(op[p].pool)
            /\ globals' = globals \cup {op[p].pool}
            /\ flock' = [flock EXCEPT ![op[p].pool] = p]
            /\ pc' = [pc EXCEPT ![p] = "sweep"]
            /\ UNCHANGED <<debugLog, wake, ret>>
       ELSE /\ AttemptFailed(p)
            /\ DebugLog(TRUE)
            /\ UNCHANGED globals
    /\ UNCHANGED <<now, debug, target, dirs, files, writable, alive, op, lock,
                   start, exc>>
    /\ UNCHANGED report
    /\ UNCHANGED <<hookVars, pluginVars>>

\* Mutant: the handler of _acquire_with_global_lock catches nothing.
CatchesNothing(e) == FALSE

\* `except OSError` of _acquire_with_global_lock: PermissionError (and the
\* FileExistsError, NotADirectoryError of a failed mkdir) are OSErrors.
IsOSError(e) == e \in {"OSError", "PermissionError"}

\* _cleanup_stale_locks from its pool_dir.mkdir on: the possible results.
\* A pool directory that cannot be made raises before any file is read.
SweepPool(pool) ==
    IF PoolDirMade(pool)
    THEN CleanupStaleLocks(files[pool], now, alive, writable)
    ELSE {[files |-> files[pool], exc |-> "OSError", logged |-> FALSE]}

\* _create_resource_lock_atomic up to `if current_count >= max_resources`:
\* the sweep, the count and the decision.  A TypeError leaves acquire_resource
\* (nothing catches it); an OSError is caught by _acquire_with_global_lock.
CountLocks(p) ==
    /\ p \in alive /\ pc[p] = "sweep"
    /\ LET pool == op[p].pool IN
       \E o \in SweepPool(pool) :
          /\ files' = [files EXCEPT ![pool] = o.files]
          /\ IF o.exc # "none" /\ ~IsOSError(o.exc)
             THEN /\ flock' = [flock EXCEPT ![pool] = NoProc]
                  /\ pc' = [pc EXCEPT ![p] = "idle"]
                  /\ exc' = [exc EXCEPT ![p] = o.exc]
                  /\ op' = [op EXCEPT ![p].timeout = 0]
                  /\ DebugLog(o.logged)
                  /\ Rest(p)
                  /\ UNCHANGED ret
             ELSE IF o.exc # "none"
                       \/ Cardinality(o.files) >= MaxResources(pool)
             THEN /\ AttemptFailed(p)
                  /\ DebugLog(TRUE)
                  /\ UNCHANGED <<op, lock, start, attempts, exc>>
             ELSE /\ pc' = [pc EXCEPT ![p] = "create"]
                  /\ DebugLog(o.logged)
                  /\ UNCHANGED <<op, flock, lock, start, wake, attempts, ret,
                                 exc>>
    /\ UNCHANGED <<now, debug, target, dirs, globals, writable, alive>>
    /\ UNCHANGED report
    /\ UNCHANGED <<hookVars, pluginVars>>

\* _create_resource_lock_atomic: `open(lock_file, "w")` creates the file of
\* a fresh id, empty; an OSError is caught by _acquire_with_global_lock.
CreateLockFile(p) ==
    /\ p \in alive /\ pc[p] = "create"
    /\ IF writable
       THEN /\ files' = [files EXCEPT ![op[p].pool] =
                            @ \cup {LockFile(FreshId, "empty", now, p)}]
            /\ lock' = [lock EXCEPT ![p] = FreshId]
            /\ pc' = [pc EXCEPT ![p] = "write"]
            /\ UNCHANGED <<flock, wake, ret, debugLog>>
       ELSE /\ AttemptFailed(p)
            /\ DebugLog(TRUE)
            /\ UNCHANGED <<files, lock>>
    /\ UNCHANGED <<now, debug, target, dirs, globals, writable, alive, op,
                   start, attempts, exc>>
    /\ UNCHANGED report
    /\ UNCHANGED <<hookVars, pluginVars>>

\* _create_resource_lock_atomic: leaving `with open(lock_file, "w")` writes
\* the record; the path is returned through _acquire_with_global_lock, which
\* releases the flock, and acquire_resource yields True.
WriteLockFile(p) ==
    /\ p \in alive /\ pc[p] = "write"
    /\ files' = [files EXCEPT ![op[p].pool] =
                    {IF f.id = lock[p] THEN [f EXCEPT !.kind = "record"] ELSE f :
                         f \in @}]
    /\ DebugLog(TRUE)
    /\ flock' = [flock EXCEPT ![op[p].pool] = NoProc]
    /\ pc' = [pc EXCEPT ![p] = "scope"]
    /\ ret' = [ret EXCEPT ![p] = "True"]
    /\ UNCHANGED <<now, debug, target, dirs, globals, writable, alive, op,
                   lock, start, wake, attempts, exc>>
    /\ UNCHANGED report
    /\ UNCHANGED <<hookVars, pluginVars>>

\* Mutant: the release leaves the lock file in place.
ReleaseKeepsFile(pool, id) == files[pool]

\* _release_lock_file: the files left once lock file `id` of `pool` was
\* released; unlink fails (and is only logged) when the directory does not
\* allow it.
ReleaseLockFile(pool, id) ==
    IF writable THEN {f \in files[pool] : f.id # id} ELSE files[pool]

\* The caller's body ends, by returning or by raising, and the `finally`
\* of acquire_resource runs _release_lock_file.
LeaveScope(p, how) ==
    /\ p \in alive /\ pc[p] = "scope"
    /\ files' = [files EXCEPT ![op[p].pool] = ReleaseLockFile(op[p].pool, lock[p])]
    /\ DebugLog(\E f \in files[op[p].pool] : f.id = lock[p])
    /\ pc' = [pc EXCEPT ![p] = "idle"]
    /\ exc' = [exc EXCEPT ![p] = IF how = "raise" THEN "BodyError" ELSE "none"]
    /\ op' = [op EXCEPT ![p].timeout = 0]
    /\ Rest(p)
    /\ UNCHANGED <<now, debug, target, dirs, globals, writable, flock, alive,
                   ret>>
    /\ UNCHANGED report
    /\ UNCHANGED <<hookVars, pluginVars>>

\* can_acquire_resource, with _count_active_locks.
CanAcquireResource(p, pool) ==
    /\ p \in alive /\ pc[p] = "idle"
    /\ op' = [op EXCEPT ![p] = [kind |-> "can_acquire", pool |-> pool, timeout |-> 0]]
    /\ IF ~PoolExists(pool)
       THEN /\ ret' = [ret EXCEPT ![p] = "False"]
            /\ exc' = [exc EXCEPT ![p] = "none"]
            /\ UNCHANGED <<files, debugLog>>
       ELSE \E o \in SweepPool(pool) :
            /\ files' = [files EXCEPT ![pool] = o.files]
            /\ DebugLog(o.logged)
            /\ exc' = [exc EXCEPT ![p] = o.exc]
            /\ ret' = [ret EXCEPT ![p] =
                          IF o.exc # "none" THEN "none"
                          ELSE IF Cardinality(o.files) < MaxResources(pool)
                          THEN "True" ELSE "False"]
    /\ UNCHANGED <<now, debug, target, dirs, globals, writable, flock, alive,
                   pc, lock, start, wake, attempts>>
    /\ report' = [report EXCEPT ![p] = NoReport]
    /\ UNCHANGED <<hookVars, pluginVars>>

RECURSIVE SumOver(_, _)
\* total_current += current, total_max += max_count over the pools
SumOver(S, val) ==
    IF S = {} THEN 0
    ELSE LET q == CHOOSE x \in S : TRUE IN val[q] + SumOver(S \ {q}, val)

\* The dictionary get_status builds from the counts F[pool] of files.
StatusOf(F) ==
    LET current == [q \in DOMAIN ResourcePools |-> Cardinality(F[q])]
        max == [q \in DOMAIN ResourcePools |-> MaxResources(q)]
    IN  [pools |-> [q \in DOMAIN ResourcePools |->
                       [current |-> current[q], max |-> max[q],
                        available |-> max[q] - current[q]]],
         total |-> [current |-> SumOver(DOMAIN ResourcePools, current),
                    max |-> SumOver(DOMAIN ResourcePools, max)]]

\* get_status: _count_active_locks on every configured pool.  Only the
\* target's directory holds files; an exception of a sweep ends the call.
GetStatus(p) ==
    /\ p \in alive /\ pc[p] = "idle"
    /\ op' = [op EXCEPT ![p] = [kind |-> "status", pool |-> "none", timeout |-> 0]]
    /\ \E o \in SweepPool(target) :
         /\ files' = [files EXCEPT ![target] = o.files]
         /\ DebugLog(o.logged)
         /\ exc' = [exc EXCEPT ![p] = o.exc]
         /\ ret' = [ret EXCEPT ![p] = IF o.exc = "none" THEN "True" ELSE "none"]
         /\ report' = [report EXCEPT ![p] =
                           IF o.exc = "none" THEN StatusOf(files') ELSE NoReport]
    /\ UNCHANGED <<now, debug, target, dirs, globals, writable, flock, alive,
                   pc, lock, start, wake, attempts>>
    /\ UNCHANGED <<hookVars, pluginVars>>

\* ------------------------------------------------------------ environment

\* A process that owns a lock file is killed (kill -9): the file stays, the
\* kernel drops its flock.
Crash(p) ==
    /\ p \in alive /\ lock[p] # NoLock
    /\ alive' = alive \ {p}
    /\ pc' = [pc EXCEPT ![p] = "crashed"]
    /\ flock' = [q \in PoolNames |-> IF flock[q] = p THEN NoProc ELSE flock[q]]
    /\ op' = [op EXCEPT ![p] = NoOp]
    /\ ret' = [ret EXCEPT ![p] = "none"]
    /\ exc' = [exc EXCEPT ![p] = "none"]
    /\ Rest(p)
    /\ UNCHANGED <<now, debug, debugLog, target, dirs, globals, files, writable>>
    /\ report' = [report EXCEPT ![p] = NoReport]
    /\ UNCHANGED <<hookVars, pluginVars>>

\* The clock moves on.
Tick ==
    /\ now < Horizon
    /\ now' = now + 1
    /\ UNCHANGED <<debug, debugLog, target, dirs, globals, files, writable,
                   flock, alive, pc, op, lock, start, wake, attempts, ret, exc>>
    /\ UNCHANGED report
    /\ UNCHANGED <<hookVars, pluginVars>>

\* The pool directory loses its write permission (chmod, a read-only
\* remount): its entries can no longer be created or removed.
Chmod ==
    /\ writable
    /\ writable' = FALSE
    /\ UNCHANGED <<now, debug, debugLog, target, dirs, globals, files, flock,
                   alive, pc, op, lock, start, wake, attempts, ret, exc>>
    /\ UNCHANGED report
    /\ UNCHANGED <<hookVars, pluginVars>>

Next ==
    \/ \E p \in Procs, pool \in {target, UnknownPool}, T \in Timeouts :
           AcquireResource(p, pool, T)
    \/ \E p \in Procs : AcquireWithRetry(p)
    \/ \E p \in Procs : AcquireWithGlobalLock(p)
    \/ \E p \in Procs : CountLocks(p)
    \/ \E p \in Procs : CreateLockFile(p)
    \/ \E p \in Procs : WriteLockFile(p)
    \/ \E p \in Procs, how \in {"return", "raise"} : LeaveScope(p, how)
    \/ \E p \in Procs, pool \in {target, UnknownPool} : CanAcquireResource(p, pool)
    \/ \E p \in Procs : GetStatus(p)
    \/ \E p \in Procs : Crash(p)
    \/ Tick
    \/ Chmod

Spec == Init /\ [][Next]_vars

\* The steps of process p inside the manager, which a running process takes.
ManagerStep(p) ==
    \/ AcquireWithRetry(p)
    \/ CountLocks(p)
    \/ CreateLockFile(p)
    \/ WriteLockFile(p)

\* A manager constructed with the debug log switched off (the default).
QuietInit == Init /\ ~debug

\* The processes run, the clock moves on, and a process blocked in flock
\* gets the lock at one of the times it is free.  The debug log, which no
\* step of the manager reads, is left switched off.
FairSpec ==
    /\ QuietInit
    /\ [][Next]_vars
    /\ WF_vars(Tick)
    /\ \A p \in Procs : WF_vars(ManagerStep(p))
    /\ \A p \in Procs : SF_vars(AcquireWithGlobalLock(p))

\* ------------------------------------------------ the post-tool linter hook
\* One dispatch of hooks/post_tool_linter/hook.py: main reads an event from
\* standard input, lints the file and runs the auto-fix loop.  The pool
\* manager, the linters and the agent subprocess are seen by their outcomes.

\* settings.max_iterations the model configures: 0..MaxIterations, or none.
MaxIterations == 3

\* default_iterations of _get_max_iterations_from_config
DefaultIterations == 3

\* What standard input holds:
\*   "empty"      nothing
\*   "badjson"    text that is not JSON
\*   "nonobject"  JSON that is not an object (a list, null, a number)
\*   "nopath"     an object without tool_input.file_path
\*   "otherevent" an event that is no PostToolUse of an editing tool
\*   "skipfile"   an edit of a file should_process_file turns down
\*   "python"     an edit of a Python file
Events ==
    {"empty", "badjson", "nonobject", "nopath", "otherevent", "skipfile",
     "python"}

Configs ==
    [auto_fix : BOOLEAN, has_max : BOOLEAN, max : 0..MaxIterations,
     debug : BOOLEAN]

\* run_linters: all pass, issues, or a linter binary that cannot be run
\* (subprocess.run raises FileNotFoundError, an OSError).
LintResults == {"pass", "issues", "OSError"}

\* acquire_resource("agents", metadata, timeout=600): yields True, yields
\* False, or raises (the TypeError of a lock record with a bad timestamp).
AcquireResults == {"True", "False", "TypeError"}

\* run_autofix_iteration: the agent succeeded; it failed (nonzero exit,
\* timeout, no changes, OSError of subprocess.run); or the debug log
\* /tmp/post_tool_linter_debug.log could not be opened before the call.
AgentResults == {"ok", "failed", "logfail"}

\* Mutant: print_response writes continue = false.
VetoResponse(kind) == [continue |-> FALSE, reasoning |-> kind]

\* print_response: the object it writes.
PrintResponse(kind) == [continue |-> TRUE, reasoning |-> kind]

\* _process_hook_request: the object it writes for a decision;
\* `message if message else "Processed"`.
Response(d) ==
    [continue |-> d.continue,
     reasoning |-> IF d.msg = "" THEN "Processed" ELSE d.msg]

\* print_response raises after printing when settings.debug is set:
\* setup_debug_logging returns a bool and `debug_dir / f"..."` is a TypeError.
PrintRaises(kinds) == cfg.debug /\ kinds # <<>>

\* Standard output after print_response was called for each of kinds, as far
\* as the calls got.
Printed(kinds) ==
    IF PrintRaises(kinds) THEN Append(out, PrintResponse(Head(kinds)))
    ELSE out \o [i \in 1..Len(kinds) |-> PrintResponse(kinds[i])]

\* print_response for each of kinds, then on at position next, with the
\* permit held or not, main not having returned; a TypeError of
\* print_response leaves main (the `finally` of acquire_resource releases).
Step(kinds, next, held) ==
    /\ out' = Printed(kinds)
    /\ IF PrintRaises(kinds)
       THEN hpc' = "done" /\ exit' = "TypeError" /\ permit' = FALSE
       ELSE hpc' = next /\ exit' = exit /\ permit' = held

\* An OSError reaches main: print_response("Linting hook error"), return 0.
MainCatches(kinds) ==
    /\ out' = Printed(kinds \o <<"hook_error">>)
    /\ hpc' = "done"
    /\ exit' = IF cfg.debug THEN "TypeError" ELSE "0"
    /\ permit' = FALSE

\* An exception main does not catch leaves it.
Escapes(e) ==
    /\ hpc' = "done" /\ exit' = e /\ permit' = FALSE
    /\ UNCHANGED out

\* process_event returned d: _process_hook_request prints the response and
\* returns 0.
Return(d) ==
    /\ decision' = d
    /\ out' = Append(out, Response(d))
    /\ hpc' = "done" /\ exit' = "0" /\ permit' = FALSE

\* _get_max_iterations_from_config
MaxIterationsFromConfig(c) == IF c.has_max THEN c.max ELSE DefaultIterations

\* Mutant: the loop runs one iteration more.
LoopOneMore(i, max) == i <= max

\* `for iteration in range(max_iterations)`: iteration i is run.
LoopContinues(i, max) == i < max

HookTypeOK ==
    /\ hpc \in {"idle", "lint", "acquire", "iterate", "relint", "verify", "done"}
    /\ event \in Events \cup {"none"}
    /\ cfg \in Configs
    /\ \A i \in 1..Len(out) : out[i].continue \in BOOLEAN
    /\ permit \in BOOLEAN
    /\ iteration \in 0..(MaxIterations + 1)
    /\ agentCalls \in 0..(MaxIterations + 1)
    /\ decision.continue \in BOOLEAN
    /\ exit \in {"none", "0", "TypeError", "AttributeError"}

\* main and _process_hook_request up to the first run_linters:
\* parse_stdin_data, load_config, PostToolLinterHook(config) and the checks
\* of process_event that need no linter.
ProcessHookRequest(e, c) ==
    /\ hpc = "idle"
    /\ event' = e /\ cfg' = c
    /\ CASE e \in {"empty", "badjson", "nopath"} ->
              /\ hpc' = "done" /\ exit' = "0"
              /\ UNCHANGED <<out, decision>>
         [] e = "nonobject" ->
              /\ hpc' = "done" /\ exit' = "AttributeError"
              /\ UNCHANGED <<out, decision>>
         [] e \in {"otherevent", "skipfile"} ->
              /\ decision' = [continue |-> TRUE, msg |-> ""]
              /\ out' = Append(out, Response(decision'))
              /\ hpc' = "done" /\ exit' = "0"
         [] OTHER ->
              /\ hpc' = "lint"
              /\ UNCHANGED <<out, decision, exit>>
    /\ UNCHANGED <<permit, iteration, agentCalls>>
    /\ UNCHANGED <<managerVars, pluginVars>>

\* process_event from its first run_linters to acquire_resource:
\* a clean file and a file with issues but auto_fix off are decided here;
\* otherwise process_file_with_autofix and _execute_autofix_with_resource
\* announce the wait.
ProcessEvent(r) ==
    /\ hpc = "lint"
    /\ CASE r = "pass" -> Return([continue |-> TRUE, msg |-> "no_issues"])
         [] r = "OSError" -> MainCatches(<<>>) /\ UNCHANGED decision
         [] OTHER ->
              IF cfg.auto_fix
              THEN Step(<<"waiting", "acquiring">>, "acquire", FALSE)
                       /\ UNCHANGED decision
              ELSE Return([continue |-> TRUE, msg |-> "issues"])
    /\ UNCHANGED <<event, cfg, iteration, agentCalls>>
    /\ UNCHANGED <<managerVars, pluginVars>>

\* _execute_autofix_with_resource: the acquire scope is entered.  Without
\* the permit the skip is announced and 0 returned; with it
\* _run_autofix_iterations starts its loop (an empty range goes straight to
\* _print_failure_message, and the scope is left).
ExecuteAutofixWithResource(a) ==
    /\ hpc = "acquire"
    /\ CASE a = "TypeError" -> Escapes("TypeError")
         [] a = "False" -> Step(<<"skipped">>, "verify", FALSE)
         [] OTHER ->
              IF LoopContinues(0, MaxIterationsFromConfig(cfg))
              THEN Step(<<"acquired">>, "iterate", TRUE)
              ELSE Step(<<"acquired", "failure">>, "verify", FALSE)
    /\ iteration' = 0
    /\ UNCHANGED <<event, cfg, agentCalls, decision>>
    /\ UNCHANGED <<managerVars, pluginVars>>

\* run_autofix_iteration inside the loop: the attempt is announced, logged,
\* and the agent run.  A failed agent ends the loop: its message and
\* _print_failure_message are printed, 0 is returned and the scope left.
RunAutofixIteration(a) ==
    /\ hpc = "iterate"
    /\ CASE a = "logfail" ->
              MainCatches(<<"attempt">>) /\ UNCHANGED agentCalls
         [] a = "failed" ->
              /\ Step(<<"attempt", "agent_error", "failure">>, "verify", FALSE)
              /\ agentCalls' = IF cfg.debug THEN agentCalls ELSE agentCalls + 1
         [] OTHER ->
              /\ Step(<<"attempt">>, "relint", TRUE)
              /\ agentCalls' = IF cfg.debug THEN agentCalls ELSE agentCalls + 1
    /\ UNCHANGED <<event, cfg, iteration, decision>>
    /\ UNCHANGED <<managerVars, pluginVars>>

\* _run_autofix_iterations after a successful agent: run_linters, inside
\* the acquire scope.  A clean file ends the loop with the success message;
\* otherwise the next iteration follows, or _print_failure_message when
\* the range is used up.  Returning leaves the scope.
ReLint(r) ==
    /\ hpc = "relint"
    /\ CASE r = "pass" ->
              Step(<<"success">>, "verify", FALSE) /\ UNCHANGED iteration
         [] r = "OSError" -> MainCatches(<<>>) /\ UNCHANGED iteration
         [] OTHER ->
              /\ iteration' = iteration + 1
              /\ IF LoopContinues(iteration + 1, MaxIterationsFromConfig(cfg))
                 THEN Step(<<>>, "iterate", TRUE)
                 ELSE Step(<<"failure">>, "verify", FALSE)
    /\ UNCHANGED <<event, cfg, agentCalls, decision>>
    /\ UNCHANGED <<managerVars, pluginVars>>

\* process_event after process_file_with_autofix returned 0 (it returns
\* nothing else): run_linters once more decides the message.
VerifyLinting(r) ==
    /\ hpc = "verify"
    /\ CASE r = "pass" -> Return([continue |-> TRUE, msg |-> "fixed"])
         [] r = "OSError" -> MainCatches(<<>>) /\ UNCHANGED decision
         [] OTHER -> Return([continue |-> TRUE, msg |-> "completed_remain"])
    /\ UNCHANGED <<event, cfg, iteration, agentCalls>>
    /\ UNCHANGED <<managerVars, pluginVars>>

HookNext ==
    \/ \E e \in Events, c \in Configs : ProcessHookRequest(e, c)
    \/ \E r \in LintResults : ProcessEvent(r)
    \/ \E a \in AcquireResults : ExecuteAutofixWithResource(a)
    \/ \E a \in AgentResults : RunAutofixIteration(a)
    \/ \E r \in LintResults : ReLint(r)
    \/ \E r \in LintResults : VerifyLinting(r)

\* The hook runs next to a quiet lock directory.
HookInit == Init /\ ~debug /\ target = "linting" /\ writable /\ files[target] = {}

HookSpec == HookInit /\ [][HookNext]_vars

\* Linters and the agent subprocess return (the agent within its timeout),
\* and acquire_resource returns (C7).
HookFairSpec == HookSpec /\ WF_vars(HookNext)

\* ------------------------------------------------------ the validation gate
\* One event given to TDDGuardHook.process_event of hooks/tdd_guard/hook.py.
\* The pool manager and the validator subprocess are seen by their outcomes;
\* the unified log is taken to be writable.

\* The events: event_type and tool_name of the event data.
GateEvents ==
    [event_type : {"PreToolUse", "PostToolUse"},
     tool_name : {"Write", "Edit", "MultiEdit", "TodoWrite", "Read"}]

\* enabled and strict_mode of the configuration (a strict_mode that is no
\* bool reads as False), and whether a concurrency manager was supplied.
GateConfigs == [enabled : BOOLEAN, strict_mode : BOOLEAN, managed : BOOLEAN]

\* is_applicable
GateApplicable(e) ==
    /\ e.event_type = "PreToolUse"
    /\ e.tool_name \in {"Write", "Edit", "MultiEdit", "TodoWrite"}

\* The validator call of _validate_tdd_compliance:
\*   "unavailable" is_tool_available("tdd_guard") is false
\*   "timeout"     subprocess.run raised TimeoutExpired
\*   "nonzero"     the validator exited with a nonzero code
\*   "OSError"     subprocess.run or the preparation of the call raised
\*   "exit0"       the validator exited with code 0
ValidatorResults == {"unavailable", "timeout", "nonzero", "OSError", "exit0"}

\* The standard output of a validator that exited with code 0:
\*   "blank"     nothing but white space
\*   "badjson"   text that is not JSON
\*   "nonobject" JSON that is not an object
\*   "approve"   an object with decision "approve"
\*   "block"     an object with decision "block"
\*   "other"     an object with another decision (null, "ask", "Approve")
\*   "absent"    an object without a decision
\*   "malformed" an object with decision "block" whose validationResults or
\*               suggestions is a number
Responses ==
    {"blank", "badjson", "nonobject", "approve", "block", "other", "absent",
     "malformed"}

\* The responses json.loads turns into an object.
Objects == {"approve", "block", "other", "absent", "malformed"}

\* data.get("decision", "approve")
DecisionOf(r) ==
    CASE r = "approve" -> "approve"
      [] r = "absent" -> "approve"
      [] r = "other" -> "other"
      [] OTHER -> "block"

\* _parse_tdd_response: what it returns, or the exception that leaves it.
\* Its handlers use a name `logger` the function does not define, so
\* whatever they catch leaves it as a NameError.
ParseTddResponse(r) ==
    CASE r = "blank" -> [exc |-> "none", continue |-> TRUE, msg |-> ""]
      [] r \in {"badjson", "nonobject", "malformed"} ->
             [exc |-> "NameError", continue |-> TRUE, msg |-> ""]
      [] OTHER ->
             [exc |-> "none", continue |-> DecisionOf(r) = "approve",
              msg |-> IF DecisionOf(r) = "approve" THEN "" ELSE "stop_reason"]

\* Mutant: a timeout lets the operation pass in strict mode too.
TimeoutAllows(strict) == [continue |-> TRUE, msg |-> "timed_out_allowing"]

\* `except subprocess.TimeoutExpired` of _validate_tdd_compliance
TimeoutExpired(strict) ==
    IF strict THEN [continue |-> FALSE, msg |-> "timed_out_blocking"]
    ELSE [continue |-> TRUE, msg |-> "timed_out_allowing"]

\* process_event returns d.
GateReturn(d) == gpc' = "done" /\ verdict' = d

\* process_event up to the acquire scope: a disabled hook and an event that
\* is not applicable pass.
GateProcessEvent(e, c) ==
    /\ gpc = "idle"
    /\ gevent' = e /\ gcfg' = c
    /\ IF ~c.enabled \/ ~GateApplicable(e)
       THEN GateReturn([continue |-> TRUE, msg |-> ""])
       ELSE /\ gpc' = IF c.managed THEN "acquire" ELSE "validate"
            /\ UNCHANGED verdict
    /\ UNCHANGED <<validator, response>>
    /\ UNCHANGED <<managerVars, hookVars, docsVars, stdioVars, utilityVars>>

\* acquire_resource(self.resource_pool, ..., timeout=30): without the permit
\* the validation is skipped; an exception of the manager leaves
\* process_event.
GateAcquire(a) ==
    /\ gpc = "acquire"
    /\ CASE a = "False" -> GateReturn([continue |-> TRUE, msg |-> "skipped"])
         [] a = "TypeError" -> gpc' = "raised" /\ UNCHANGED verdict
         [] OTHER -> gpc' = "validate" /\ UNCHANGED verdict
    /\ UNCHANGED <<gevent, gcfg, validator, response>>
    /\ UNCHANGED <<managerVars, hookVars, docsVars, stdioVars, utilityVars>>

\* _validate_tdd_compliance up to the validator's exit.
ValidateTddCompliance(v) ==
    /\ gpc = "validate"
    /\ validator' = v
    /\ CASE v = "unavailable" ->
              GateReturn([continue |-> TRUE, msg |-> "not_available"])
         [] v = "timeout" -> GateReturn(TimeoutExpired(gcfg.strict_mode))
         [] v = "nonzero" ->
              GateReturn([continue |-> TRUE, msg |-> "validation_error"])
         [] v = "OSError" ->
              GateReturn([continue |-> TRUE, msg |-> "validation_failed"])
         [] OTHER -> gpc' = "parse" /\ UNCHANGED verdict
    /\ UNCHANGED <<gevent, gcfg, response>>
    /\ UNCHANGED <<managerVars, hookVars, docsVars, stdioVars, utilityVars>>

\* _validate_tdd_compliance after exit code 0: _parse_tdd_response(stdout);
\* what leaves it as an exception is caught by `except Exception`.
ParseResponse(r) ==
    /\ gpc = "parse"
    /\ response' = r
    /\ IF ParseTddResponse(r).exc = "none"
       THEN GateReturn([continue |-> ParseTddResponse(r).continue,
                        msg |-> ParseTddResponse(r).msg])
       ELSE GateReturn([continue |-> TRUE, msg |-> "validation_failed"])
    /\ UNCHANGED <<gevent, gcfg, validator>>
    /\ UNCHANGED <<managerVars, hookVars, docsVars, stdioVars, utilityVars>>

GateNext ==
    \/ \E e \in GateEvents, c \in GateConfigs : GateProcessEvent(e, c)
    \/ \E a \in AcquireResults : GateAcquire(a)
    \/ \E v \in ValidatorResults : ValidateTddCompliance(v)
    \/ \E r \in Responses : ParseResponse(r)

GateSpec == HookInit /\ [][GateNext]_vars

\* --------------------------------------------------- the documentation hook
\* One Context7DocsHook of hooks/context7_docs/hook.py over the events it is
\* given.  The pool manager and the transport (_call_mcp_server) are seen by
\* their outcomes; the unified log is taken to be writable.  Time is counted
\* in ticks of half an hour.

\* cache_duration_hours
CacheDurationHours == 1

\* `/ 3600` of _is_cache_valid
SecondsPerHour == 3600
SecondsPerTick == SecondsPerHour \div 2

\* The clock runs until an entry written at its start has expired.
MaxDocsTime == 2 * CacheDurationHours

\* enabled, proactive_enhancement, is_tool_available("context7"), and
\* whether a concurrency manager was supplied.
DocsConfigs ==
    [enabled : BOOLEAN, proactive : BOOLEAN, available : BOOLEAN,
     managed : BOOLEAN]

\* The library lists _detect_relevant_libraries and _extract_dependencies
\* come up with (none also when the manifest cannot be read).
LibraryLists ==
    {<<>>, <<"react">>, <<"django">>, <<"react", "django">>}

\* The events.  tool_name "Manifest" is a Read of a dependency manifest
\* (_is_dependency_file_path).  topic is _infer_topic of the event: a Read
\* has neither content nor new_string, so its topic is None.
DocsEvents ==
    {e \in [event_type : {"PreToolUse", "PostToolUse", "Stop"},
            tool_name : {"Write", "Read", "Manifest"},
            topic : Topics, libs : LibraryLists] :
        /\ e.tool_name # "Write" => e.topic = "none"
        /\ e.event_type = "Stop" => (e.tool_name = "Read" /\ e.libs = <<>>)}

\* The text get-library-docs returns for a key at a time.
Content(k, t) == <<k[1], k[2], t>>

\* Mutant: an entry as old as the cache duration is still valid.
CacheValidAtDuration(k) ==
    /\ doc_cache[k] # NoEntry
    /\ (dclock - doc_cache[k].timestamp) * SecondsPerTick
           <= CacheDurationHours * SecondsPerHour

\* _is_cache_valid: (time.time() - timestamp) / 3600 < cache_duration_hours,
\* both sides multiplied by 3600.
IsCacheValid(k) ==
    /\ doc_cache[k] # NoEntry
    /\ (dclock - doc_cache[k].timestamp) * SecondsPerTick
           < CacheDurationHours * SecondsPerHour

\* cache_key of _get_library_documentation
CacheKey == <<Head(queue), devent.topic>>

\* A transport call is made.
CallMcpServer(name) == calls' = Append(calls, [name |-> name, permit |-> dpermit])

\* process_event returns (True, msg); an acquire scope is left.
DocsReturn(msg) ==
    /\ dpc' = "done" /\ dpermit' = FALSE
    /\ dverdict' = [continue |-> TRUE, msg |-> msg]

\* Context7DocsHook.__init__
Construct(c) ==
    /\ dpc = "new"
    /\ dcfg' = c /\ dpc' = "idle"
    /\ UNCHANGED <<dclock, devent, doc_cache, queue, dpermit, enhancements,
                   calls, lookup, failures, dverdict>>
    /\ UNCHANGED <<managerVars, hookVars, gateVars, stdioVars,
                   utilityVars>>

\* process_event up to the acquire scope or the first library:
\* _proactive_enhancement for a PreToolUse, _reactive_analysis and
\* _analyze_new_dependencies (the first two libraries) for a PostToolUse.
DocsProcessEvent(e) ==
    /\ dpc \in {"idle", "done"}
    /\ devent' = e
    /\ enhancements' = <<>> /\ calls' = <<>> /\ failures' = {}
    /\ lookup' = "none"
    /\ CASE ~dcfg.enabled \/ ~dcfg.available ->
              DocsReturn("") /\ queue' = <<>>
         [] e.event_type = "PreToolUse" /\ dcfg.proactive ->
              IF e.tool_name # "Write"
              THEN DocsReturn("") /\ queue' = <<>>
              ELSE /\ dpc' = IF dcfg.managed THEN "acquire" ELSE "lookup"
                   /\ queue' = e.libs
                   /\ UNCHANGED <<dpermit, dverdict>>
         [] e.event_type = "PostToolUse" ->
              IF e.tool_name # "Manifest"
              THEN DocsReturn("") /\ queue' = <<>>
              ELSE /\ dpc' = "lookup"
                   /\ queue' = SubSeq(e.libs, 1, Min(2, Len(e.libs)))
                   /\ UNCHANGED <<dpermit, dverdict>>
         [] OTHER -> DocsReturn("") /\ queue' = <<>>
    /\ UNCHANGED <<dclock, dcfg, doc_cache>>
    /\ UNCHANGED <<managerVars, hookVars, gateVars, stdioVars,
                   utilityVars>>

\* _proactive_enhancement: acquire_resource(self.resource_pool, ...,
\* timeout=TIMEOUTS.for_mcp_server()).
DocsAcquire(a) ==
    /\ dpc = "acquire"
    /\ CASE a = "False" ->
              /\ DocsReturn("") /\ failures' = failures \cup {"pool_miss"}
         [] a = "TypeError" ->
              /\ dpc' = "raised" /\ UNCHANGED <<dpermit, dverdict, failures>>
         [] OTHER ->
              /\ dpc' = "lookup" /\ dpermit' = TRUE
              /\ UNCHANGED <<dverdict, failures>>
    /\ UNCHANGED <<dclock, dcfg, devent, doc_cache, queue, enhancements,
                   calls, lookup>>
    /\ UNCHANGED <<managerVars, hookVars, gateVars, stdioVars,
                   utilityVars>>

\* The loop over the libraries and the start of _get_library_documentation:
\* a valid cache entry is the library's documentation; otherwise the
\* library is resolved.  After the last library the message is formatted.
GetLibraryDocumentation ==
    /\ dpc = "lookup"
    /\ IF queue = <<>>
       THEN /\ DocsReturn(IF enhancements = <<>> THEN "" ELSE "enhanced")
            /\ UNCHANGED <<queue, enhancements, lookup>>
       ELSE IF IsCacheValid(CacheKey)
       THEN /\ enhancements' = Append(enhancements, doc_cache[CacheKey].content)
            /\ queue' = Tail(queue)
            /\ lookup' = "hit"
            /\ UNCHANGED <<dpc, dpermit, dverdict>>
       ELSE /\ lookup' = "miss" /\ dpc' = "resolve"
            /\ UNCHANGED <<queue, enhancements, dpermit, dverdict>>
    /\ UNCHANGED <<dclock, dcfg, devent, doc_cache, calls, failures>>
    /\ UNCHANGED <<managerVars, hookVars, gateVars, stdioVars,
                   utilityVars>>

\* The outcomes of resolve-library-id: an id was selected; the answer holds
\* no match; the transport gave no answer.  Without an id the library's
\* name is used.
ResolveResults == {"resolved", "no_match", "error"}

\* _resolve_library_id
ResolveLibraryId(r) ==
    /\ dpc = "resolve"
    /\ CallMcpServer("resolve-library-id")
    /\ failures' = CASE r = "no_match" -> failures \cup {"resolve_miss"}
                     [] r = "error" -> failures \cup {"transport_error"}
                     [] OTHER -> failures
    /\ dpc' = "docs"
    /\ UNCHANGED <<dclock, dcfg, devent, doc_cache, queue, dpermit,
                   enhancements, lookup, dverdict>>
    /\ UNCHANGED <<managerVars, hookVars, gateVars, stdioVars,
                   utilityVars>>

\* Mutant: a fetch without text drops the entry of the key.
FetchEvictsOnFailure(ok) ==
    /\ dpc = "docs"
    /\ CallMcpServer("get-library-docs")
    /\ IF ok
       THEN /\ doc_cache' = [doc_cache EXCEPT ![CacheKey] =
                   [content |-> Content(CacheKey, dclock), timestamp |-> dclock]]
            /\ enhancements' = Append(enhancements, Content(CacheKey, dclock))
            /\ UNCHANGED failures
       ELSE /\ failures' = failures \cup {"transport_error"}
            /\ doc_cache' = [doc_cache EXCEPT ![CacheKey] = NoEntry]
            /\ UNCHANGED enhancements
    /\ queue' = Tail(queue)
    /\ dpc' = "lookup"
    /\ UNCHANGED <<dclock, dcfg, devent, dpermit, lookup, dverdict>>
    /\ UNCHANGED <<managerVars, hookVars, gateVars, stdioVars,
                   utilityVars>>

\* _fetch_library_docs and the rest of _get_library_documentation: text is
\* cached with the time; no text is no documentation for this library.
FetchLibraryDocs(ok) ==
    /\ dpc = "docs"
    /\ CallMcpServer("get-library-docs")
    /\ IF ok
       THEN /\ doc_cache' = [doc_cache EXCEPT ![CacheKey] =
                   [content |-> Content(CacheKey, dclock), timestamp |-> dclock]]
            /\ enhancements' = Append(enhancements, Content(CacheKey, dclock))
            /\ UNCHANGED failures
       ELSE /\ failures' = failures \cup {"transport_error"}
            /\ UNCHANGED <<doc_cache, enhancements>>
    /\ queue' = Tail(queue)
    /\ dpc' = "lookup"
    /\ UNCHANGED <<dclock, dcfg, devent, dpermit, lookup, dverdict>>
    /\ UNCHANGED <<managerVars, hookVars, gateVars, stdioVars,
                   utilityVars>>

\* Time passes.
DocsTick ==
    /\ dpc # "new"
    /\ dclock < MaxDocsTime
    /\ dclock' = dclock + 1
    /\ UNCHANGED <<dpc, dcfg, devent, doc_cache, queue, dpermit, enhancements,
                   calls, lookup, failures, dverdict>>
    /\ UNCHANGED <<managerVars, hookVars, gateVars, stdioVars,
                   utilityVars>>

DocsNext ==
    \/ \E c \in DocsConfigs : Construct(c)
    \/ \E e \in DocsEvents : DocsProcessEvent(e)
    \/ \E a \in AcquireResults : DocsAcquire(a)
    \/ GetLibraryDocumentation
    \/ \E r \in ResolveResults : ResolveLibraryId(r)
    \/ \E ok \in BOOLEAN : FetchLibraryDocs(ok)
    \/ DocsTick

DocsSpec == HookInit /\ [][DocsNext]_vars

\* ------------------------------------------------------------ the stdio call
\* One call of _call_mcp_server over the stdio transport: the child is
\* spawned, the three records are written and two lines read, stdin is
\* closed and the child waited for.  The child answers or not, and exits
\* when it likes.  Time is counted in ticks.

\* TIMEOUTS.for_mcp_server(), in ticks.
McpTimeout == 2

\* The clock of the call runs a little past the timeout.
MaxElapsed == McpTimeout + 2

\* init_request, initialized_notification and the caller's request: the
\* method and the id (none for the notification).
InitRequest ==
    [method |-> "initialize", id |-> "0", protocolVersion |-> "2024-11-05"]
InitializedNotification ==
    [method |-> "notifications/initialized", id |-> "none",
     protocolVersion |-> "none"]
Request == [method |-> "tools/call", id |-> "1", protocolVersion |-> "none"]

\* The lines the child has written so far, read or not.
Answered == lines + Cardinality({i \in 1..Len(reads) : reads[i] = "line"})

\* The records written that ask for a response.
Asked == Cardinality({i \in 1..Len(written) : written[i].id # "none"})

\* Mutant: the handler returns and leaves the child as it is.
LeftRunning(c) == c

\* process.kill(); process.wait()
KillAndWait(c) == "reaped"

\* The call returns v by path.
StdioReturn(v, path) == mpc' = "done" /\ result' = [value |-> v, path |-> path]

\* `except Exception` of the stdio branch: kill, wait, return None.
CommunicationError ==
    /\ child' = KillAndWait(child)
    /\ StdioReturn("None", "error")

\* Mutant: the notification is written without reading the response to
\* initialize.
SkipInitResponse == "notify"

\* The step after the initialize record.
AfterInitialize == "read_init"

\* process.stdin.write(...); process.stdin.flush(): to a child that has
\* exited it raises BrokenPipeError.
Write(record, next) ==
    IF child = "running"
    THEN /\ written' = Append(written, record)
         /\ mpc' = next
         /\ UNCHANGED <<child, result>>
    ELSE CommunicationError /\ UNCHANGED written

\* process.stdout.readline(): a line, or "" at end of file; it blocks while
\* the running child has written nothing.
Readline(next) ==
    /\ lines > 0 \/ child # "running"
    /\ IF lines > 0
       THEN reads' = Append(reads, "line") /\ lines' = lines - 1
       ELSE reads' = Append(reads, "eof") /\ UNCHANGED lines
    /\ mpc' = next

\* subprocess.Popen(full_command, ...): a command that cannot be run raises
\* and the call returns None.
Popen(ok) ==
    /\ mpc = "idle"
    /\ IF ok
       THEN child' = "running" /\ mpc' = "init" /\ UNCHANGED result
       ELSE StdioReturn("None", "spawn") /\ UNCHANGED child
    /\ UNCHANGED <<written, reads, lines, elapsed, waitStart>>
    /\ UNCHANGED <<managerVars, hookVars, gateVars, docsVars, utilityVars>>

\* Step 1: the initialize request.
WriteInitialize ==
    /\ mpc = "init"
    /\ Write(InitRequest, AfterInitialize)
    /\ UNCHANGED <<reads, lines, elapsed, waitStart>>
    /\ UNCHANGED <<managerVars, hookVars, gateVars, docsVars, utilityVars>>

\* init_response = process.stdout.readline()
ReadInitResponse ==
    /\ mpc = "read_init"
    /\ Readline("notify")
    /\ UNCHANGED <<child, written, elapsed, waitStart, result>>
    /\ UNCHANGED <<managerVars, hookVars, gateVars, docsVars, utilityVars>>

\* Step 2: the initialized notification.
WriteInitialized ==
    /\ mpc = "notify"
    /\ Write(InitializedNotification, "request")
    /\ UNCHANGED <<reads, lines, elapsed, waitStart>>
    /\ UNCHANGED <<managerVars, hookVars, gateVars, docsVars, utilityVars>>

\* Step 3: the caller's request.
WriteRequest ==
    /\ mpc = "request"
    /\ Write(Request, "read_tool")
    /\ UNCHANGED <<reads, lines, elapsed, waitStart>>
    /\ UNCHANGED <<managerVars, hookVars, gateVars, docsVars, utilityVars>>

\* tool_response = process.stdout.readline(); process.stdin.close(), and
\* process.wait(timeout=...) begins.
ReadToolResponse ==
    /\ mpc = "read_tool"
    /\ Readline("wait")
    /\ waitStart' = elapsed
    /\ UNCHANGED <<child, written, elapsed, result>>
    /\ UNCHANGED <<managerVars, hookVars, gateVars, docsVars, utilityVars>>

\* process.wait(timeout=...) ends: the child has exited and is reaped, and
\* the line is parsed (a line that is not JSON raises, and the handler
\* returns None); or the timeout expires and the child is killed and waited
\* for.
Wait(valid) ==
    /\ mpc = "wait"
    /\ IF child # "running"
       THEN /\ child' = "reaped"
            /\ CASE reads[Len(reads)] = "eof" -> StdioReturn("None", "empty")
                 [] valid -> StdioReturn("response", "parsed")
                 [] OTHER -> StdioReturn("None", "error")
       ELSE /\ elapsed - waitStart >= McpTimeout
            /\ child' = KillAndWait(child)
            /\ StdioReturn("None", "timeout")
    /\ UNCHANGED <<written, reads, lines, elapsed, waitStart>>
    /\ UNCHANGED <<managerVars, hookVars, gateVars, docsVars, utilityVars>>

\* The child answers a request it has read.
ChildResponds ==
    /\ child = "running" /\ mpc # "done"
    /\ Answered < Asked
    /\ lines' = lines + 1
    /\ UNCHANGED <<mpc, child, written, reads, elapsed, waitStart, result>>
    /\ UNCHANGED <<managerVars, hookVars, gateVars, docsVars, utilityVars>>

\* The child exits.
ChildExits ==
    /\ child = "running" /\ mpc # "done"
    /\ child' = "exited"
    /\ UNCHANGED <<mpc, written, reads, lines, elapsed, waitStart, result>>
    /\ UNCHANGED <<managerVars, hookVars, gateVars, docsVars, utilityVars>>

\* Time passes while the call is under way.
StdioTick ==
    /\ mpc \notin {"idle", "done"}
    /\ elapsed < MaxElapsed
    /\ elapsed' = elapsed + 1
    /\ UNCHANGED <<mpc, child, written, reads, lines, waitStart, result>>
    /\ UNCHANGED <<managerVars, hookVars, gateVars, docsVars, utilityVars>>

StdioNext ==
    \/ \E ok \in BOOLEAN : Popen(ok)
    \/ WriteInitialize
    \/ ReadInitResponse
    \/ WriteInitialized
    \/ WriteRequest
    \/ ReadToolResponse
    \/ \E valid \in BOOLEAN : Wait(valid)
    \/ ChildResponds
    \/ ChildExits
    \/ StdioTick

StdioSpec == HookInit /\ [][StdioNext]_vars

\* ------------------------------------------------------ the agent's timeout
\* calculate_timeout of hooks/post_tool_linter/hook.py and
\* ProcessTimeouts.for_claude_call, computed as Python computes them: the
\* factor 1.0 + n * 0.2 and the product base * factor are IEEE doubles, each
\* operation rounded to 53 significant bits (to nearest, ties to even), and
\* int() truncates.  Numbers too wide for the checker's integers are
\* sequences of bits, lowest bit first, counting units of 2^-UnitBits.

\* The base timeouts tried: 1..MaxBase and the default of claude_agent.
MaxBase == 60
ClaudeAgentDefault == 300
Bases == (1..MaxBase) \cup {ClaudeAgentDefault}

\* The lines of an issue report: len(issues_text.split("\n")) is at least 1.
MaxIssueLines == 30

\* min_timeout and max_timeout of the call in calculate_timeout.
MinTimeout == 60
MaxTimeout == 600

\* The significant bits of a double, and the unit 2^-55 in which the
\* double 0.2 is a whole number.
MantissaBits == 53
UnitBits == 55

Max(a, b) == IF a > b THEN a ELSE b

RECURSIVE ValueOf(_)
\* The natural number of a (short) sequence of bits.
ValueOf(b) == IF b = <<>> THEN 0 ELSE Head(b) + 2 * ValueOf(Tail(b))

RECURSIVE Zeros(_)
Zeros(k) == IF k = 0 THEN <<>> ELSE <<0>> \o Zeros(k - 1)

RECURSIVE AddCarry(_, _, _)
\* a + b + c for bit sequences a, b and a carry c.
AddCarry(a, b, c) ==
    IF a = <<>> /\ b = <<>>
    THEN IF c = 0 THEN <<>> ELSE <<1>>
    ELSE LET x == IF a = <<>> THEN 0 ELSE Head(a)
             y == IF b = <<>> THEN 0 ELSE Head(b)
             ra == IF a = <<>> THEN <<>> ELSE Tail(a)
             rb == IF b = <<>> THEN <<>> ELSE Tail(b)
         IN  <<(x + y + c) % 2>> \o AddCarry(ra, rb, (x + y + c) \div 2)

RECURSIVE Times(_, _)
\* n * a for a natural number n and a bit sequence a.
Times(n, a) ==
    IF n = 0 THEN <<>>
    ELSE AddCarry(IF n % 2 = 1 THEN a ELSE <<>>,
                  IF n = 1 THEN <<>> ELSE <<0>> \o Times(n \div 2, a), 0)

\* The double nearest to a: its top 53 bits, plus one when the rest is more
\* than half a unit of the last place, or exactly half and the last place
\* is odd.
Round(a) ==
    IF Len(a) <= MantissaBits THEN a
    ELSE LET d == Len(a) - MantissaBits
             high == SubSeq(a, d + 1, Len(a))
             sticky == \E i \in 1..(d - 1) : a[i] = 1
             up == a[d] = 1 /\ (sticky \/ high[1] = 1)
         IN  Zeros(d) \o AddCarry(high, <<>>, IF up THEN 1 ELSE 0)

RECURSIVE Nines(_)
Nines(k) == IF k = 0 THEN <<>> ELSE <<1, 0, 0, 1>> \o Nines(k - 1)

\* The double 0.2: 0x1999999999999A * 2^-55.
PointTwo == <<0, 1, 0, 1>> \o Nines(12) \o <<1>>

\* The double 1.0.
One == Zeros(UnitBits) \o <<1>>

\* estimated_issues = max(1, issue_lines // 3)
EstimatedIssues(issue_lines) == Max(1, issue_lines \div 3)

\* complexity_factor = 1.0 + (estimated_issues * 0.2)
ComplexityFactor(n) == Round(AddCarry(One, Round(Times(n, PointTwo)), 0))

\* int(x) of a double that is not negative.
IntOf(a) == IF Len(a) <= UnitBits THEN 0
            ELSE ValueOf(SubSeq(a, UnitBits + 1, Len(a)))

\* ProcessTimeouts.for_claude_call
ForClaudeCall(base, factor) ==
    Max(MinTimeout, Min(IntOf(Round(Times(base, factor))), MaxTimeout))

\* calculate_timeout with claude_agent = base on a report of so many lines.
CalculateTimeout(base, issue_lines) ==
    /\ tmo.pc = "idle"
    /\ tmo' = [pc |-> "done", base |-> base, issue_lines |-> issue_lines,
               timeout |-> ForClaudeCall(base,
                   ComplexityFactor(EstimatedIssues(issue_lines)))]
    /\ UNCHANGED <<managerVars, hookVars, gateVars, docsVars, stdioVars>>
    /\ UNCHANGED <<lint, probe, loader, single>>

TimeoutNext ==
    \E base \in Bases : \E issue_lines \in 1..MaxIssueLines :
        CalculateTimeout(base, issue_lines)

TimeoutSpec == HookInit /\ [][TimeoutNext]_vars

\* ------------------------------------------------------- the linters' run
\* PostToolLinterHook.process_event from its first check to the end of
\* run_linters: which events reach the linters, and the linter processes
\* one after the other.  What follows the linters is the auto-fix path of
\* the dispatch above.  Time is counted in ticks.

\* TIMEOUTS.for_linter_execution(), in ticks.
LinterTimeout == 2

\* The clock of a linter run goes a little past the timeout.
MaxLintTime == LinterTimeout + 1

\* enabled_linters by default.
Linters == <<"black", "flake8", "pyright">>

EditTools == {"Edit", "Write", "MultiEdit", "NotebookEdit"}

\* tool_input.file_path: set (present and not empty); ends in ".py";
\* contains "/.claude/"; lies inside the .claude tree (a relative path
\* ".claude/x.py" does and has no "/.claude/" in it).
Paths ==
    {q \in [set : BOOLEAN, py : BOOLEAN, marker : BOOLEAN, inside : BOOLEAN] :
        /\ q.marker => q.inside
        /\ ~q.set => q = NoPath}

LintEvents ==
    [event_type : {"PostToolUse", "PreToolUse"},
     tool_name : EditTools \cup {"Read"},
     path : Paths]

\* is_claude_available: CLAUDE_PATH exists; or `which` is run and finds it;
\* or `which` is run and does not.
ClaudeStates == {"path", "which", "missing"}

\* The checks of process_event before should_process_file.
ReachesFileCheck(e) ==
    /\ e.event_type = "PostToolUse"
    /\ e.tool_name \in EditTools
    /\ e.path.set

\* should_process_file: the three exclusion checks are all evaluated.
ShouldProcessFile(q, cl) == ~q.marker /\ q.py /\ cl # "missing"

\* process_event up to the first linter process.  self.enabled is not
\* looked at.
LintProcessEvent(en, e, cl) ==
    /\ lint.pc = "idle"
    /\ lint' = [lint EXCEPT
           !.enabled = en, !.event = e, !.claude = cl,
           !.which = ReachesFileCheck(e) /\ cl # "path",
           !.pc = IF ReachesFileCheck(e) /\ ShouldProcessFile(e.path, cl)
                  THEN "linting" ELSE "done",
           !.started = IF ReachesFileCheck(e) /\ ShouldProcessFile(e.path, cl)
                       THEN 1 ELSE 0,
           !.verdict = [continue |-> TRUE, msg |-> ""]]
    /\ UNCHANGED <<managerVars, hookVars, gateVars, docsVars, stdioVars>>
    /\ UNCHANGED <<tmo, probe, loader, single>>

\* subprocess.run of a linter returns when the linter has exited; the next
\* linter is started, or run_linters returns.
LinterExits ==
    /\ lint.pc = "linting"
    /\ lint' = IF lint.started < Len(Linters)
               THEN [lint EXCEPT !.started = @ + 1, !.elapsed = 0]
               ELSE [lint EXCEPT !.pc = "done",
                                 !.verdict = [continue |-> TRUE, msg |-> "linted"]]
    /\ UNCHANGED <<managerVars, hookVars, gateVars, docsVars, stdioVars>>
    /\ UNCHANGED <<tmo, probe, loader, single>>

\* Time passes while a linter runs; subprocess.run was given no timeout.
LintTick ==
    /\ lint.pc = "linting"
    /\ lint.elapsed < MaxLintTime
    /\ lint' = [lint EXCEPT !.elapsed = @ + 1]
    /\ UNCHANGED <<managerVars, hookVars, gateVars, docsVars, stdioVars>>
    /\ UNCHANGED <<tmo, probe, loader, single>>

LintNext ==
    \/ \E en \in BOOLEAN : \E e \in LintEvents : \E cl \in ClaudeStates :
           LintProcessEvent(en, e, cl)
    \/ LinterExits
    \/ LintTick

LintSpec == HookInit /\ [][LintNext]_vars

\* ------------------------------------------------------------- the probe
\* ExternalToolLoader._check_tool_availability of hooks/external_loader.py:
\* _check_tdd_guard, then _check_context7_mcp.  A candidate is seen by what
\* happens when it is tried: its file is absent (for a command: it is not on
\* PATH); it exits with 0; it exits with another code; it exits with another
\* code and "{" on its output; it runs into the timeout; subprocess.run
\* raises an OSError other than FileNotFoundError and PermissionError (a
\* file that cannot be executed).
Outcomes == {"absent", "ok", "nonzero", "marker", "timeout", "oserror"}

\* src/node_modules/.bin/tdd-guard --version; that file or the one of the
\* root node_modules with input "{}"; node <submodule> --version;
\* tdd-guard --version.  The second candidate is the first one's file when
\* that exists.
TddEnvs ==
    {t \in [src : Outcomes, input : Outcomes, submodule : Outcomes,
            global : Outcomes] :
        t.src # "absent" => t.input # "absent"}

\* npx --yes @upstash/context7-mcp --help; the submodule's index.js (absent,
\* or what running it would do); npx @upstash/context7-mcp --version.
C7Envs ==
    [help : Outcomes \ {"marker"},
     submodule : {"absent", "ok", "nonzero"},
     version : Outcomes \ {"marker"}]

\* The exceptions the probes do not catch.
ProbeRaises(o) == o = "oserror"

\* `result.returncode == 0`
ExitsCleanly(o) == o = "ok"

\* `result.returncode == 0 or (result.stdout and "{" in result.stdout)`
ExitsCleanlyOrMarker(o) == o \in {"ok", "marker"}

\* _check_tdd_guard: the source recorded, "unavailable", or "raised".
TddGuardStatus(t) ==
    CASE ProbeRaises(t.src) -> "raised"
      [] ExitsCleanly(t.src) -> "local"
      [] ProbeRaises(t.input) -> "raised"
      [] ExitsCleanlyOrMarker(t.input) -> "local"
      [] ProbeRaises(t.submodule) -> "raised"
      [] ExitsCleanly(t.submodule) -> "submodule"
      [] ProbeRaises(t.global) -> "raised"
      [] ExitsCleanly(t.global) -> "global"
      [] OTHER -> "unavailable"

\* _check_context7_mcp: the submodule is recorded when its file exists; it
\* is not run.
Context7Status(c) ==
    CASE ProbeRaises(c.help) -> "raised"
      [] ExitsCleanly(c.help) -> "npx"
      [] c.submodule # "absent" -> "submodule"
      [] ProbeRaises(c.version) -> "raised"
      [] ExitsCleanly(c.version) -> "global"
      [] OTHER -> "unavailable"

\* _check_tdd_guard on a machine where the candidates behave as t.
CheckTddGuard(t) ==
    /\ probe.pc = "idle"
    /\ probe' = IF TddGuardStatus(t) = "raised"
                THEN [probe EXCEPT !.pc = "raised", !.tdd = t]
                ELSE [probe EXCEPT !.pc = "context7", !.tdd = t,
                          !.tools_status.tdd_guard = TddGuardStatus(t)]
    /\ UNCHANGED <<managerVars, hookVars, gateVars, docsVars, stdioVars>>
    /\ UNCHANGED <<tmo, lint, loader, single>>

\* _check_context7_mcp, and _check_global_tools, which does nothing.
CheckContext7Mcp(c) ==
    /\ probe.pc = "context7"
    /\ probe' = IF Context7Status(c) = "raised"
                THEN [probe EXCEPT !.pc = "raised", !.c7 = c]
                ELSE [probe EXCEPT !.pc = "done", !.c7 = c,
                          !.tools_status.context7 = Context7Status(c)]
    /\ UNCHANGED <<managerVars, hookVars, gateVars, docsVars, stdioVars>>
    /\ UNCHANGED <<tmo, lint, loader, single>>

ProbeNext ==
    \/ \E t \in TddEnvs : CheckTddGuard(t)
    \/ \E c \in C7Envs : CheckContext7Mcp(c)

ProbeSpec == HookInit /\ [][ProbeNext]_vars

\* ------------------------------------------------------------- the loader
\* HookManager.create_hook of hooks/manager.py: the identifier is looked up,
\* the module loaded, the hook made by the module's factory or by its hook
\* class.

\* A name of the registry, the path of a Python file, a dotted module path,
\* anything else.
Identifiers == {"registry", "path", "module", "other"}

\* Loading the module: it is loaded; the registry entry has no entry point;
\* the file does not exist or raises when executed (_load_module returns
\* None); import_module raises ImportError; import_module raises something
\* else (a SyntaxError, an error of the module's own code).
LoadResults == {"loaded", "no_entry_point", "none", "ImportError", "error"}

\* What a loader can meet for an identifier.
LoadsFor(id) ==
    CASE id = "registry" -> {"loaded", "no_entry_point", "none"}
      [] id = "path" -> {"loaded", "none"}
      [] id = "module" -> {"loaded", "ImportError", "error"}
      [] OTHER -> {"none"}

\* A call of the factory or of the class with (config, concurrency_manager):
\* there is none; it returns an object validate_hook accepts; one it does
\* not accept; it raises TypeError; it raises another exception.  The second
\* call, with (config) alone: valid, invalid, or any exception.
Calls == {"none", "valid", "invalid", "TypeError", "error"}
Retries == {"valid", "invalid", "error"}

Modules ==
    [factory : Calls, factory_retry : Retries, class : Calls,
     class_retry : Retries]

\* One of the two attempts of _instantiate_hook: the hook is returned, the
\* exception leaves, or the next attempt is made.
Attempt(call, retry) ==
    CASE call = "valid" -> "hook"
      [] call = "error" -> "raised"
      [] call = "TypeError" /\ retry = "valid" -> "hook"
      [] OTHER -> "next"

\* _instantiate_hook: the result and who made the hook.
InstantiateHook(m) ==
    CASE Attempt(m.factory, m.factory_retry) # "next" ->
             [result |-> Attempt(m.factory, m.factory_retry),
              by |-> "factory"]
      [] Attempt(m.class, m.class_retry) # "next" ->
             [result |-> Attempt(m.class, m.class_retry), by |-> "class"]
      [] OTHER -> [result |-> "None", by |-> "none"]

\* create_hook, _create_from_registry, _create_from_path and
\* _create_from_module.
CreateHook(id, load, m) ==
    /\ loader.pc = "idle"
    /\ load \in LoadsFor(id)
    /\ loader' =
           [pc |-> "done", identifier |-> id, load |-> load, module |-> m,
            result |-> CASE load = "loaded" -> InstantiateHook(m).result
                         [] load = "error" -> "raised"
                         [] OTHER -> "None",
            by |-> IF load = "loaded" THEN InstantiateHook(m).by ELSE "none"]
    /\ UNCHANGED <<managerVars, hookVars, gateVars, docsVars, stdioVars>>
    /\ UNCHANGED <<tmo, lint, probe, single>>

LoaderNext ==
    \E id \in Identifiers : \E load \in LoadResults : \E m \in Modules :
        CreateHook(id, load, m)

LoaderSpec == HookInit /\ [][LoaderNext]_vars

\* ---------------------------------------------------------- the singleton
\* get_external_loader of hooks/external_loader.py, called by the threads of
\* one process: the unlocked test of the global, the lock, the second test,
\* the construction (which runs the probe), the assignment.  Loaders are
\* numbered in the order of their construction; 0 is None.

\* The constructions one process is followed through.
MaxProbes == 3

\* `if _external_loader is None` outside the lock: the loader is returned,
\* or the thread goes for the lock.
GetExternalLoader(t) ==
    /\ single.pc[t] = "idle"
    /\ single' = IF single.external_loader # 0
                 THEN [single EXCEPT !.got[t] = single.external_loader,
                                     !.failed[t] = FALSE]
                 ELSE [single EXCEPT !.pc[t] = "lock", !.failed[t] = FALSE]
    /\ UNCHANGED <<managerVars, hookVars, gateVars, docsVars, stdioVars>>
    /\ UNCHANGED <<tmo, lint, probe, loader>>

\* `with _loader_lock:` is entered, and the global tested again: the loader
\* another thread has assigned is returned (the lock is released), or the
\* constructor is called.
LoaderLock(t) ==
    /\ single.pc[t] = "lock"
    /\ single.loader_lock = "free"
    /\ single' = IF single.external_loader # 0
                 THEN [single EXCEPT !.pc[t] = "idle",
                                     !.got[t] = single.external_loader]
                 ELSE [single EXCEPT !.pc[t] = "construct",
                                     !.loader_lock = t]
    /\ single.external_loader = 0 => single.probes < MaxProbes
    /\ UNCHANGED <<managerVars, hookVars, gateVars, docsVars, stdioVars>>
    /\ UNCHANGED <<tmo, lint, probe, loader>>

\* ExternalToolLoader(): the probe runs.  When it ends the loader is
\* assigned to the global and returned; when it raises, the exception
\* leaves get_external_loader and the global stays None.  The lock is
\* released either way.
NewExternalToolLoader(t, ok) ==
    /\ single.pc[t] = "construct"
    /\ single' = IF ok
                 THEN [single EXCEPT !.pc[t] = "idle", !.loader_lock = "free",
                           !.probes = @ + 1,
                           !.external_loader = single.probes + 1,
                           !.got[t] = single.probes + 1]
                 ELSE [single EXCEPT !.pc[t] = "idle", !.loader_lock = "free",
                           !.probes = @ + 1, !.failed[t] = TRUE]
    /\ UNCHANGED <<managerVars, hookVars, gateVars, docsVars, stdioVars>>
    /\ UNCHANGED <<tmo, lint, probe, loader>>

SingletonNext ==
    \E t \in Threads :
        \/ GetExternalLoader(t)
        \/ LoaderLock(t)
        \/ \E ok \in BOOLEAN : NewExternalToolLoader(t, ok)

SingletonSpec == HookInit /\ [][SingletonNext]_vars

\* ----------------------------------------------------------------- claims

\* A lock file is non-stale: its age is within stale_timeout and its pid
\* denotes a live process (of this user or of another).
NonStale(f) == now - f.ts <= StaleTimeout /\ f.pid \in alive \cup {OtherUser}

\* The acquire scopes of `pool` that yielded True, of live processes.
Holders(pool) ==
    {p \in alive : pc[p] = "scope" /\ ret[p] = "True" /\ op[p].pool = pool}

\* C1: no pool directory ever holds more than max non-stale lock files.
C1_CapacityBound ==
    \A q \in PoolNames :
        Cardinality({f \in files[q] : NonStale(f)}) <= MaxResources(q)

\* A pool is full of non-stale lock files, one of them of a holder in its
\* scope, and the attempt of another process was turned down.
C1_Witness ==
    \E p, q \in Procs :
        /\ pc[p] = "scope" /\ ret[p] = "True"
        /\ pc[q] = "sleep" /\ op[q].pool = op[p].pool
        /\ Cardinality({f \in files[op[p].pool] : NonStale(f)})
               = MaxResources(op[p].pool)

\* C2: a pool never has more than max live holders.  Stated for the time
\* in which no permit can be older than stale_timeout (the claim's "any
\* hold durations" covers more): the bound fails even there.
C2_HolderBound ==
    now - Epoch <= StaleTimeout =>
        \A q \in PoolNames : Cardinality(Holders(q)) <= MaxResources(q)

\* C3, as claimed: once a scope that created a lock file is left, the file
\* is gone.
C3_ScopedRelease ==
    [][\A p \in Procs :
          (pc[p] = "scope" /\ lock[p] # NoLock /\ pc'[p] = "idle")
              => \A f \in files'[op[p].pool] : f.id # lock[p]]_vars

\* C3, amended: once a scope that created a lock file is left, the file is
\* gone, unless the directory refused the unlink.
C3_ScopedReleaseWritable ==
    [][\A p \in Procs :
          (pc[p] = "scope" /\ lock[p] # NoLock /\ pc'[p] = "idle" /\ writable)
              => \A f \in files'[op[p].pool] : f.id # lock[p]]_vars

\* A scope that held a permit was left by an exception of the caller's body
\* and the pool directory is empty again.
C3_Witness ==
    \E p \in Procs :
        /\ pc[p] = "idle" /\ op[p].kind = "acquire" /\ ret[p] = "True"
        /\ exc[p] = "BodyError"
        /\ writable
        /\ files[op[p].pool] = {}

\* A lock record is stale by the policy of the specification: older than
\* stale_timeout, or of a pid that denotes no process.
StaleByPolicy(f) ==
    f.kind = "record"
        /\ (now - f.ts > StaleTimeout \/ f.pid \notin alive \cup {OtherUser})

\* Process p leaves the sweep-and-count of an acquire attempt.
Attempted(p) == pc[p] = "sweep" /\ pc'[p] # "sweep"

\* Process p sweeps the target's directory: in an acquire attempt, in
\* can_acquire_resource or in get_status.
Swept(p) == Attempted(p) \/ CanAcquireResource(p, target) \/ GetStatus(p)

\* C4: a stale lock record is deleted by the next acquire attempt on its
\* pool, and the attempt goes on to create a lock file when the other files
\* number fewer than max.  Stated for a directory of well-formed records
\* that allows unlink.
C4_StaleReclamation ==
    [][\A p \in Procs :
          LET pool == op[p].pool
              stale == {f \in files[pool] : StaleByPolicy(f)}
          IN  (Attempted(p) /\ writable /\ stale # {}
                   /\ \A f \in files[pool] : f.kind = "record")
                  => /\ files'[pool] \cap stale = {}
                     /\ Cardinality(files[pool] \ stale) < MaxResources(pool)
                            => pc'[p] = "create"]_vars

\* C5: can_acquire_resource and get_status create no lock file and remove
\* none that belongs to a live holder and is younger than stale_timeout.
C5_AdvisoryFrame ==
    [][(\E p \in Procs : GetStatus(p)
            \/ \E pool \in {target, UnknownPool} : CanAcquireResource(p, pool))
          => \A q \in PoolNames :
                /\ files'[q] \subseteq files[q]
                /\ \A f \in files[q] :
                      (/\ now - f.ts <= StaleTimeout
                       /\ \E h \in alive : /\ lock[h] = f.id
                                           /\ pc[h] \in {"write", "scope"})
                          => f \in files'[q]]_vars

\* C6: an acquire with timeout 0 on a configured pool makes one attempt,
\* never sleeps, and gets a lock file if and only if the directory holds
\* fewer than max files after the sweep.  Stated for a directory that
\* allows the creation.
C6_TryOnce ==
    [][\A p \in Procs :
          (/\ op[p].kind = "acquire" /\ op[p].timeout = 0
           /\ pc[p] \in {"flock", "sweep", "create", "write"}
           /\ PoolExists(op[p].pool) /\ writable)
              => /\ pc'[p] # "sleep"
                 /\ attempts'[p] <= 1
                 /\ Attempted(p) =>
                        (pc'[p] = "create" <=>
                            Cardinality(files'[op[p].pool])
                                < MaxResources(op[p].pool))]_vars

\* C7: a blocking acquire (timeout T > 0) returns.  It makes at least one
\* attempt and at most one per tick of T; it yields False only when T has
\* elapsed; and a process inside acquire_resource gets out of it.
C7_BoundedAcquire ==
    /\ [](\A p \in Procs :
            (op[p].kind = "acquire" /\ op[p].timeout > 0 /\ PoolExists(op[p].pool))
                => /\ pc[p] \in {"sweep", "create", "write", "sleep", "scope"}
                       => attempts[p] >= 1
                   /\ attempts[p] <= op[p].timeout
                   /\ (pc[p] = "scope" /\ ret[p] = "False")
                       => now - start[p] >= op[p].timeout)
    /\ \A p \in Procs :
          (pc[p] \in {"flock", "sweep", "create", "write", "sleep"})
              ~> (pc[p] \in {"idle", "scope", "crashed"})

\* A blocking acquire was turned down at its second attempt, slept, and
\* yielded False when its timeout had elapsed.
C7_Witness ==
    \E p \in Procs :
        /\ pc[p] = "scope" /\ ret[p] = "False"
        /\ op[p].timeout > 1 /\ attempts[p] > 1
        /\ PoolExists(op[p].pool)

\* C8, as claimed: an acquire on an unknown pool creates no file and no
\* directory.
C8_UnknownPoolNoFile ==
    [][(\E p \in Procs, T \in Timeouts : AcquireResource(p, UnknownPool, T))
          => /\ debugLog' = debugLog
             /\ <<files, dirs, globals>>' = <<files, dirs, globals>>]_vars

\* C8, amended: an acquire on an unknown pool yields False at once, without
\* polling and without the pool-wide lock; it creates no lock file, no
\* pool directory and no global lock file (the debug log is all it may
\* write); can_acquire_resource returns False.
C8_UnknownPool ==
    /\ UnknownPool \notin dirs \cup globals
    /\ files[UnknownPool] = {}
    /\ flock[UnknownPool] = NoProc
    /\ \A p \in Procs :
          op[p].pool = UnknownPool
              => /\ pc[p] \in {"idle", "scope"}
                 /\ ret[p] = "False"
                 /\ attempts[p] = 0
                 /\ exc[p] \in {"none", "BodyError"}

\* A blocking acquire on the unknown pool is in its scope with False, and
\* can_acquire_resource has returned False for the unknown pool.
C8_Witness ==
    \E p, q \in Procs :
        /\ pc[p] = "scope" /\ ret[p] = "False"
        /\ op[p] = [kind |-> "acquire", pool |-> UnknownPool, timeout |-> MaxWait]
        /\ op[q].kind = "can_acquire" /\ op[q].pool = UnknownPool
        /\ ret[q] = "False"

\* C9: the sweep removes the lock records that are older than stale_timeout
\* or whose pid denotes no process, and only those; a record whose liveness
\* probe fails otherwise is kept, nothing is raised, and an attempt goes on
\* to the count.  Stated for a directory of well-formed records that allows
\* unlink.
C9_StalePolicy ==
    [][\A p \in Procs :
          (Swept(p) /\ writable /\ \A f \in files[target] : f.kind = "record")
              => /\ files'[target] = {f \in files[target] : ~StaleByPolicy(f)}
                 /\ exc'[p] # "PermissionError"
                 /\ (Attempted(p) /\ pc'[p] # "create")
                        => Cardinality(files'[target]) >= MaxResources(target)]_vars

\* C10: a file that is not a valid lock record is removed by the next
\* sweep, and the sweep raises nothing.  Stated for a directory that allows
\* unlink.
C10_MalformedIsStale ==
    [][\A p \in Procs :
          (Swept(p) /\ writable)
              => /\ \A f \in files[target] : f.kind # "record" => f \notin files'[target]
                 /\ exc'[p] # "TypeError"]_vars

\* C11: while the lock directory or the pool's directory cannot be made, an
\* acquire on a configured pool raises nothing, never yields True, creates
\* no lock file, and enters its scope with False.
C11_FailClosed ==
    \A p \in Procs :
        (op[p].kind = "acquire" /\ PoolExists(op[p].pool)
             /\ ~PoolDirMade(op[p].pool))
            => /\ exc[p] \in {"none", "BodyError"}
               /\ ret[p] # "True"
               /\ pc[p] = "scope" => ret[p] = "False"
               /\ lock[p] = NoLock
               /\ files[op[p].pool] = {}

\* A try-once acquire found the lock directory missing, and a blocking
\* acquire found the pool's directory missing until its timeout: both are
\* in their scope with False.
C11_Witness ==
    \/ \E p \in Procs :
          /\ dirs = {} /\ pc[p] = "scope" /\ ret[p] = "False"
          /\ op[p] = [kind |-> "acquire", pool |-> target, timeout |-> 0]
          /\ attempts[p] = 1
    \/ \E p \in Procs :
          /\ dirs = DOMAIN ResourcePools \ {target}
          /\ pc[p] = "scope" /\ ret[p] = "False"
          /\ op[p] = [kind |-> "acquire", pool |-> target, timeout |-> MaxWait]
          /\ attempts[p] = MaxWait

\* C12: a try-once acquire on a pool of the default set whose directory
\* holds no file yields True (agents, linting, testing, documentation).
\* Stated for a directory that allows the creation.
C12_DefaultPools ==
    [][\A p \in Procs :
          (/\ pc[p] # "scope" /\ pc'[p] = "scope"
           /\ op'[p].kind = "acquire" /\ op'[p].timeout = 0
           /\ op'[p].pool \in {"agents", "linting", "testing", "documentation"}
           /\ files[op'[p].pool] = {} /\ writable)
              => ret'[p] = "True"]_vars

\* C13: get_status returns, and for every configured pool its report has
\* current = the number of lock files that are not stale, the pool's max,
\* available = max - current, 0 <= current <= max, and the totals are the
\* sums.  Stated for directories that allow unlink.
C13_StatusConsistent ==
    [][\A p \in Procs :
          (GetStatus(p) /\ writable)
              => /\ exc'[p] = "none"
                 /\ report'[p] # NoReport
                 /\ \A q \in DOMAIN ResourcePools :
                       LET r == report'[p].pools[q] IN
                       /\ r.current = Cardinality({f \in files'[q] : NonStale(f)})
                       /\ r.max = ResourcePools[q]
                       /\ r.available = r.max - r.current
                       /\ 0 <= r.current /\ r.current <= r.max
                 /\ report'[p].total.current =
                        SumOver(DOMAIN ResourcePools,
                                [q \in DOMAIN ResourcePools |->
                                    report'[p].pools[q].current])
                 /\ report'[p].total.max =
                        SumOver(DOMAIN ResourcePools, ResourcePools)]_vars

\* print_response was called with this message in the dispatch.
Announced(kind) == \E i \in 1..Len(out) : out[i].reasoning = kind

\* Standard input held a JSON object.
IsEnvelope == event \in {"nopath", "otherevent", "skipfile", "python"}

\* C14: the hook holds the agents permit whenever it is about to call the
\* agent and never when it is about to run the linters.
C14_PermitOnlyForAgent ==
    /\ hpc = "iterate" => permit
    /\ hpc \in {"lint", "relint", "verify"} => ~permit

\* C15: every object the hook has printed, and the decision process_event
\* returned, has continue = true.
C15_NeverVetoes ==
    /\ \A i \in 1..Len(out) : out[i].continue
    /\ decision.continue

\* A dispatch printed the progress of an auto-fix whose agent failed and
\* then its decision.
C15_Witness ==
    /\ hpc = "done" /\ exit = "0"
    /\ Announced("agent_error") /\ Announced("attempt")
    /\ decision # NoDecision
    /\ out[Len(out)] = Response(decision)

C17_PermitMiss ==
    (hpc = "done" /\ Announced("skipped") /\ decision # NoDecision)
        => /\ agentCalls = 0
           /\ decision = [continue |-> TRUE, msg |-> "skipped_busy"]

\* C18: when an agent call failed, no further call is made and the decision
\* reports that auto-fix failed.
C18_AgentFailure ==
    (hpc = "done" /\ Announced("agent_error") /\ decision # NoDecision)
        => /\ agentCalls = iteration + 1
           /\ decision = [continue |-> TRUE, msg |-> "autofix_failed"]

\* C19: a dispatch that has ended has written exactly one object to
\* standard output.
C19_OneEnvelope == hpc = "done" => Len(out) = 1

\* C20: a dispatch on an event envelope ends with exit code 0; no exception
\* leaves main.
C20_NoEscape == (hpc = "done" /\ IsEnvelope) => exit = "0"

\* C21: for every validator response received with exit code 0, the gate
\* returns continue = true if and only if the response's decision equals
\* "approve"; a different decision, or no decision at all, yields
\* continue = false.
C21_ResponseInterpretation ==
    (gpc = "done" /\ validator = "exit0" /\ response \in Objects)
        => (verdict.continue <=> response = "approve")

\* C22: a validator timeout yields continue = false in strict mode and
\* continue = true otherwise; the validator being unavailable, a nonzero
\* exit, output that cannot be parsed, and any other exception of the
\* validation yield continue = true in both modes.
C22_StrictAsymmetry ==
    gpc = "done" =>
        /\ validator = "timeout" => (verdict.continue <=> ~gcfg.strict_mode)
        /\ validator \in {"unavailable", "nonzero", "OSError"}
               => verdict.continue
        /\ (validator = "exit0"
                /\ response \in {"badjson", "nonobject", "malformed"})
               => verdict.continue

\* The validator timed out under a strict gate and the operation is blocked.
C22_Witness ==
    /\ gpc = "done" /\ validator = "timeout" /\ gcfg.strict_mode
    /\ ~verdict.continue

\* C23: the documentation hook never vetoes: for every event and every
\* outcome of pool acquisition, library resolution and transport calls,
\* process_event returns continue = true, and on any failure the message
\* carries no enhancement.
C23_DocsNeverVeto ==
    /\ dpc # "raised"
    /\ dpc = "done" =>
           /\ dverdict.continue
           /\ failures # {} => dverdict.msg = ""

\* C24: a cache entry for (library, topic) written at t0 is returned by
\* every lookup at a time t with t - t0 < cache_ttl_hours * 3600 and is a
\* miss at every later time; a hit returns the cached content without any
\* transport call.
C24_CacheValidity ==
    [][\A k \in DocKeys :
          (/\ dpc = "lookup" /\ queue # <<>> /\ k = CacheKey
           /\ doc_cache[k] # NoEntry
           /\ (dpc' # dpc \/ queue' # queue))
          => IF (dclock - doc_cache[k].timestamp) * SecondsPerTick
                    < CacheDurationHours * SecondsPerHour
             THEN /\ lookup' = "hit"
                  /\ enhancements' = Append(enhancements, doc_cache[k].content)
                  /\ calls' = calls /\ doc_cache' = doc_cache
             ELSE lookup' = "miss" /\ dpc' = "resolve"]_vars

\* An entry written earlier was served from the cache without a transport
\* call, half an hour after it was written.
C24_Witness ==
    /\ lookup = "hit" /\ calls = <<>> /\ Len(enhancements) = 1
    /\ \E k \in DocKeys :
          /\ doc_cache[k] # NoEntry
          /\ enhancements[1] = doc_cache[k].content
          /\ dclock - doc_cache[k].timestamp = 1

\* C25: when a pool manager is supplied, every resolve-library-id and
\* get-library-docs call, on the pre-edit path and on the post-read path
\* alike, is made while the hook holds a documentation permit, and on a
\* permit miss no transport call is made.
C25_CallsUnderPermit ==
    dcfg.managed =>
        /\ \A i \in 1..Len(calls) : calls[i].permit
        /\ "pool_miss" \in failures => calls = <<>>

\* The three records of the handshake, in order.
Handshake == <<InitRequest, InitializedNotification, Request>>

IsPrefix(s, t) == Len(s) <= Len(t) /\ s = SubSeq(t, 1, Len(s))

\* C26 as stated: on each stdio call the client writes exactly three
\* records, in the order initialize (id 0, protocol version 2024-11-05),
\* notifications/initialized (no id), the caller's request with its id; the
\* notification is written only after one response line to initialize has
\* been read, and exactly one further line is read as the response.
C26_HandshakeOrdering ==
    (mpc = "done" /\ result.path # "spawn") =>
        /\ written = Handshake
        /\ reads = <<"line", "line">>

\* C26 as amended: the records written are always the first records of the
\* handshake, the notification is written only after a response line to
\* initialize has been read, at most one further read follows, and a call
\* that ends in another way than a communication error has written all
\* three records; one that returns a response has read two lines.
C26_HandshakePrefix ==
    /\ IsPrefix(written, Handshake)
    /\ Len(written) >= 2 => (Len(reads) >= 1 /\ reads[1] = "line")
    /\ Len(reads) <= 2
    /\ Len(reads) = 2 => written = Handshake
    /\ (mpc = "done" /\ result.path \notin {"spawn", "error"})
           => written = Handshake
    /\ (mpc = "done" /\ result.value = "response")
           => reads = <<"line", "line">>

\* A call returned a response after the full handshake.
C26_Witness ==
    /\ mpc = "done" /\ result.value = "response"
    /\ written = Handshake /\ reads = <<"line", "line">>

\* C27: whenever a stdio call returns (with a response, with none, after a
\* timeout or after a communication error), the spawned child has exited
\* and been reaped.
C27_ChildReaped == mpc = "done" => child \in {"none", "reaped"}

\* The wait timed out on a running child, which was killed and reaped.
C27_Witness ==
    /\ mpc = "done" /\ result.path = "timeout" /\ child = "reaped"

\* C28: a stdio call always returns within its configured deadline; a child
\* that produces no response line at the initialize step or at the request
\* step is killed and reaped and the call returns without a result.
C28_BoundedCall == mpc \notin {"idle", "done"} => elapsed <= McpTimeout

\* C29: the single result written for an event carries the logical AND of
\* the decisions of the hooks that ran and their non-empty messages joined
\* by a newline; the dispatch of the source runs one hook, so the result is
\* that hook's decision and that hook's message.
C29_Aggregation ==
    (hpc = "done" /\ decision # NoDecision) =>
        out[Len(out)] =
            [continue |-> decision.continue, reasoning |-> decision.msg]

\* The positions of one attempt between the flock and the end of
\* _acquire_with_global_lock: the sweep and count, the creation of the lock
\* file, the writing of its record.
InAttempt == {"sweep", "create", "write"}

\* C30: a process holds a pool's pool-wide lock only inside one
\* sweep-count-create attempt on that pool: never while it sleeps between
\* polls, never while the caller's scope body runs, never after the attempt
\* ended with a permit, at capacity or with an error; and a process inside
\* an attempt is the holder.
C30_FlockScope ==
    /\ \A pool \in PoolNames : \A p \in Procs :
           flock[pool] = p =>
               /\ p \in alive
               /\ pc[p] \in InAttempt
               /\ op[p].pool = pool
    /\ \A p \in Procs : pc[p] \in InAttempt => flock[op[p].pool] = p

\* One process sleeps between polls after an attempt that found the pool at
\* capacity or failed, and another holds the pool-wide lock of that pool.
C30_Witness ==
    \E p \in Procs : \E q \in Procs \ {p} :
        /\ pc[p] = "sleep" /\ attempts[p] >= 1
        /\ flock[op[p].pool] = q

\* A pre-edit event the hook works on: enabled, the server available,
\* proactive enhancement on, a Write.
IsProactive ==
    /\ dcfg.enabled /\ dcfg.available /\ dcfg.proactive
    /\ devent.event_type = "PreToolUse" /\ devent.tool_name = "Write"

\* C31: a pre-edit event for which a fresh cache entry exists for one of
\* the selected (library, topic) keys is answered with the cached snippet,
\* whatever the documentation pool grants: the event does not end without
\* an enhancement.
C31_CacheBeforePermit ==
    (dpc = "done" /\ IsProactive
       /\ \E i \in 1..Len(devent.libs) :
              IsCacheValid(<<devent.libs[i], devent.topic>>))
        => dverdict.msg = "enhanced"

\* C32: get-library-docs is called for a library only after
\* resolve-library-id returned an id for it: a resolution that found no
\* match or got no answer is not followed by the fetch.
C32_ResolveBeforeFetch ==
    [][(dpc = "resolve" /\ dpc' = "docs") => (failures' = failures)]_vars

\* C33: the documentation cache changes only by a fetch that returned text
\* for a key that had no valid entry, and then only at that key, which gets
\* the text; a fetch without text leaves the cache as it was; no step
\* removes an entry.
C33_CacheFrame ==
    [][/\ \A k \in DocKeys :
              doc_cache[k] # NoEntry => doc_cache'[k] # NoEntry
       /\ (doc_cache' # doc_cache) =>
              /\ dpc = "docs" /\ lookup = "miss"
              /\ ~IsCacheValid(CacheKey)
              /\ \A k \in DocKeys \ {CacheKey} : doc_cache'[k] = doc_cache[k]
              /\ enhancements' = Append(enhancements, doc_cache'[CacheKey].content)
      ]_vars

\* An event for a key whose entry had expired got no text from the fetch and
\* ended without enhancement; the expired entry is still in the cache.
C33_Witness ==
    /\ dpc = "done" /\ dverdict.msg = "" /\ "transport_error" \in failures
    /\ Len(calls) = 2 /\ Len(devent.libs) = 1
    /\ doc_cache[<<devent.libs[1], devent.topic>>] # NoEntry
    /\ ~IsCacheValid(<<devent.libs[1], devent.topic>>)

\* base * (1 + 0.2 * n), rounded down to a whole number of seconds.
Scaled(base, n) == (base * (5 + n)) \div 5

\* C34: the timeout given to the agent is a whole number of seconds in
\* [60, 600], equal to base * (1 + 0.2 * n) clamped to that range, n >= 1
\* the estimated issue count of the report.
C34_TimeoutClamp ==
    tmo.pc = "done" =>
        /\ tmo.timeout \in MinTimeout..MaxTimeout
        /\ EstimatedIssues(tmo.issue_lines) >= 1
        /\ tmo.timeout =
               Max(MinTimeout,
                   Min(Scaled(tmo.base, EstimatedIssues(tmo.issue_lines)),
                       MaxTimeout))

\* C35: a linter process is never waited for longer than the linter
\* timeout.
C35_LinterBounded == lint.pc = "linting" => lint.elapsed <= LinterTimeout

\* The events the linters are to be run for: PostToolUse of an editing
\* tool, file_path set, a Python file, not inside the .claude tree.
LinterApplies(e) ==
    /\ e.event_type = "PostToolUse"
    /\ e.tool_name \in EditTools
    /\ e.path.set /\ e.path.py /\ ~e.path.inside

\* C36: the linters are run for exactly these events; for every other
\* event the hook returns (true, "") and no process was started.
C36_Applicability ==
    lint.pc # "idle" =>
        /\ lint.started > 0 <=> LinterApplies(lint.event)
        /\ ~LinterApplies(lint.event) =>
               /\ lint.pc = "done" /\ ~lint.which
               /\ lint.verdict = [continue |-> TRUE, msg |-> ""]

\* C37: a hook whose configuration has enabled = false returns (true, "")
\* for every event and starts nothing.
C37_DisabledInert ==
    (lint.pc # "idle" /\ ~lint.enabled) =>
        /\ lint.pc = "done" /\ lint.started = 0 /\ ~lint.which
        /\ lint.verdict = [continue |-> TRUE, msg |-> ""]

\* The record the search order gives for the validation tool: the local
\* install (its version call, or its answer to an empty input), the
\* submodule, the global command, the first of them whose invocation
\* succeeded; unavailable when none did.
FirstMatchTdd(t) ==
    CASE ExitsCleanly(t.src) \/ ExitsCleanlyOrMarker(t.input) -> "local"
      [] ExitsCleanly(t.submodule) -> "submodule"
      [] ExitsCleanly(t.global) -> "global"
      [] OTHER -> "unavailable"

\* The same for the documentation server: the submodule, then the two npx
\* commands.
FirstMatchC7(c) ==
    CASE ExitsCleanly(c.submodule) -> "submodule"
      [] ExitsCleanly(c.help) -> "npx"
      [] ExitsCleanly(c.version) -> "global"
      [] OTHER -> "unavailable"

\* C38: when the probe has ended, each tool has one record, that of the
\* first candidate in the order local, submodule, global whose invocation
\* succeeded, and is recorded unavailable only if every candidate failed.
C38_ProbeOrder ==
    probe.pc \in {"done", "raised"} =>
        /\ probe.tools_status.tdd_guard = FirstMatchTdd(probe.tdd)
        /\ probe.tools_status.context7 = FirstMatchC7(probe.c7)

\* C39: create_hook ends with a hook that validates, made by the factory
\* when the factory made a valid one, or with None; no exception leaves it.
C39_LoaderOutcome ==
    loader.pc = "done" =>
        /\ loader.result \in {"hook", "None"}
        /\ (loader.result = "hook" /\ loader.module.factory = "valid")
               => loader.by = "factory"

\* C40: the tools are probed once per process: at most one
\* ExternalToolLoader is constructed, and every call that returned got
\* that one.
C40_OneLoader ==
    /\ single.probes <= 1
    /\ \A t \in Threads : single.got[t] \in {0, single.external_loader}

====
